---- MODULE Spec2Model ----
(***************************************************************************)
(* Model of the recipe search back end: the facet index                    *)
(* (BackEnd/services/facet_index.py), the inverted index                   *)
(* (BackEnd/services/inverted_index.py), the FAISS service                 *)
(* (BackEnd/services/faiss_service.py) and the hybrid search route         *)
(* (BackEnd/app.py).                                                       *)
(*                                                                         *)
(* Text is a tuple of one-character strings, so that strip(), lower(),     *)
(* isalnum(), len() and startswith() are computed and not assumed.  A      *)
(* Python dict is a sequence of [k, v] entries in insertion order.         *)
(***************************************************************************)
EXTENDS Integers, Sequences, FiniteSets, TLC

VARIABLES
    facet,        \* the FacetIndex object under construction
    new_facets,   \* a second FacetIndex object, the target of load()
    facet_file,   \* the pickle file written by FacetIndex.save
    facet_ret,    \* the last FacetIndex call and what it returned
    facet_recipes, \* the recipes that were added to facet
    inv,          \* the InvertedIndex object under construction
    new_inv,      \* a second InvertedIndex object, the target of load()
    inv_file,     \* the pickle file written by InvertedIndex.save
    inv_ret,      \* the last InvertedIndex call and what it returned
    inv_recipes,  \* the recipes that were added to inv
    faiss,        \* the FaissService object under construction
    new_faiss,    \* a second FaissService object, the target of load()
    faiss_file,   \* the .faiss file written by FaissService.save
    meta_file,    \* the .meta file written by FaissService.save
    faiss_ret,    \* the last FaissService call and what it returned
    adding,       \* the add_recipes call that another thread is running on faiss
    app,          \* the Flask application that create_app returns
    app_ret       \* the last request to the application and its response

facetVars == <<facet, new_facets, facet_file, facet_ret, facet_recipes>>

invVars == <<inv, new_inv, inv_file, inv_ret, inv_recipes>>

faissVars == <<faiss, new_faiss, faiss_file, meta_file, faiss_ret, adding>>

appVars == <<app, app_ret>>

notFacet == <<invVars, faissVars, appVars>>

notInv == <<facetVars, faissVars, appVars>>

notFaiss == <<facetVars, invVars, appVars>>

notApp == <<facetVars, invVars, faissVars>>

vars == <<facetVars, invVars, faissVars, appVars>>

----------------------------------------------------------------------------
(* Bounds of the model. *)

\* the number of recipes added to one index object
MaxRecipes == 3

\* the number of add_recipe calls on an inverted index that is saved and loaded
MaxSavedRecipes == 2

\* the number of vectors in the FAISS index
MaxVectors == 4

\* the number of vectors in a FAISS index that is saved and loaded
MaxSavedVectors == 2

\* the number of results that the hybrid route asks of each search.  The code asks for
\* 30; the model asks for fewer than its corpus has documents, so that a document can
\* be in the results of one search and beyond the limit of the other
SearchLimit == 2

----------------------------------------------------------------------------
(* Python values. *)

\* Python's None
None == "None"

\* an ordered Python dict: the keys, in insertion order
Keys(d) == {d[i].k : i \in DOMAIN d}

\* key in d
HasKey(d, key) == \E i \in DOMAIN d : d[i].k = key

\* d.get(key, default)
Get(d, key, default) ==
    IF HasKey(d, key) THEN d[CHOOSE i \in DOMAIN d : d[i].k = key].v ELSE default

\* d[key].add(x) on a defaultdict(set): a missing key is created at the end
SetAdd(d, key, x) ==
    IF HasKey(d, key)
    THEN [i \in DOMAIN d |-> IF d[i].k = key THEN [k |-> key, v |-> d[i].v \cup {x}] ELSE d[i]]
    ELSE Append(d, [k |-> key, v |-> {x}])

\* d[key] = value: a present key keeps its place, a new key goes to the end
SetItem(d, key, value) ==
    IF HasKey(d, key)
    THEN [i \in DOMAIN d |-> IF d[i].k = key THEN [k |-> key, v |-> value] ELSE d[i]]
    ELSE Append(d, [k |-> key, v |-> value])

\* d[key] read on a defaultdict(set): the dict after the read, where a missing key
\* has been created with an empty set
getitem_default(d, key) ==
    IF HasKey(d, key) THEN d ELSE Append(d, [k |-> key, v |-> {}])

\* the dict after d[key] has been read for each key of the list, in its order
RECURSIVE reads(_, _)
reads(d, keys) ==
    IF keys = <<>> THEN d ELSE reads(getitem_default(d, Head(keys)), Tail(keys))

\* the union of d.values()
Values(d) == UNION {d[i].v : i \in DOMAIN d}

\* recipe_data.get(field, default) on a record with optional fields
Field(rec, name, default) == IF name \in DOMAIN rec THEN rec[name] ELSE default

----------------------------------------------------------------------------
(* Text. *)

\* the upper-case letters of the texts, and their lower case
LowerCase ==
    [c \in {"B", "C", "G", "O", "P", "Q", "R", "S", "T"} |->
        CASE c = "B" -> "b" [] c = "C" -> "c" [] c = "G" -> "g" [] c = "O" -> "o"
          [] c = "P" -> "p" [] c = "Q" -> "q" [] c = "R" -> "r" [] c = "S" -> "s"
          [] c = "T" -> "t"]

\* str.lower()
Lower(s) == [i \in DOMAIN s |-> IF s[i] \in DOMAIN LowerCase THEN LowerCase[s[i]] ELSE s[i]]

RECURSIVE LStrip(_)
LStrip(s) == IF s # <<>> /\ Head(s) = " " THEN LStrip(Tail(s)) ELSE s

RECURSIVE RStrip(_)
RStrip(s) ==
    IF s # <<>> /\ s[Len(s)] = " " THEN RStrip(SubSeq(s, 1, Len(s) - 1)) ELSE s

\* str.strip()
Strip(s) == RStrip(LStrip(s))

\* s.startswith(prefix)
StartsWith(s, prefix) ==
    Len(prefix) <= Len(s) /\ SubSeq(s, 1, Len(prefix)) = prefix

----------------------------------------------------------------------------
(* The recipes.  A recipe is a record; a field the JSON document does not   *)
(* have is a field the record does not have.                                *)

garlic == <<"g", "a", "r", "l", "i", "c">>
rice == <<"r", "i", "c", "e">>
beef == <<"b", "e", "e", "f">>

Chicken ==
    [id |-> "r1", title |-> <<"C", "h", "i", "c", "k", "e", "n">>,
     country |-> "South Korea", category |-> "Main",
     difficulty |-> "medium", meal_type |-> "dinner", cooking_method |-> "fried",
     ingredients |-> <<[item |-> garlic], [item |-> <<"o", "i">>]>>,
     duration |-> [total |-> 90], instructions |-> <<>>]

BeefRice ==
    [id |-> "r2", title |-> <<"B", "e", "e", "f", " ", "R", "i", "c", "e">>,
     country |-> "USA", difficulty |-> "easy",
     ingredients |-> <<[item |-> <<"B", "e", "e", "f">>], [item |-> <<" ", "R", "i", "c", "e">>]>>,
     duration |-> [total |-> 25], instructions |-> <<>>]

Pasta ==
    [id |-> "r3",
     title |-> <<"G", "a", "r", "l", "i", "c", " ", "R", "i", "c", "e", " ", "C", "u", "p", "s">>,
     country |-> "Italy", category |-> "Main",
     difficulty |-> "easy", meal_type |-> "dinner", cooking_method |-> "boiled",
     ingredients |-> <<[item |-> <<"G", "a", "r", "l", "i", "c", " ">>, quantity |-> <<"2", " ", "c", "u", "p", "s">>], [item |-> rice]>>,
     duration |-> [total |-> 60], instructions |-> <<>>]

Snack ==
    [id |-> "r4", title |-> <<"T", "h", "e", " ", "S", "n", "a", "c", "k">>, category |-> "Snack",
     ingredients |-> <<[quantity |-> <<"1">>]>>]

Recipes == {Chicken, BeefRice, Pasta, Snack}

\* a second document with the content of Chicken
Twin == [Chicken EXCEPT !.id = "r5"]

\* a document without an id
NoId == [title |-> <<"S", "o", "u", "p">>]

----------------------------------------------------------------------------
(* FacetIndex. *)

FacetIndex_init ==
    [country_index |-> <<>>, category_index |-> <<>>, difficulty_index |-> <<>>,
     meal_type_index |-> <<>>, cooking_method_index |-> <<>>, ingredient_index |-> <<>>,
     all_countries |-> {}, all_categories |-> {}, all_difficulties |-> {},
     all_meal_types |-> {}, all_cooking_methods |-> {}, all_ingredients |-> {},
     duration_index |-> <<[k |-> "quick", v |-> {}], [k |-> "medium", v |-> {}],
                          [k |-> "long", v |-> {}]>>]

\* the loop over recipe_data['ingredients']
RECURSIVE add_ingredients(_, _, _)
add_ingredients(self, recipe_id, ingredients) ==
    IF ingredients = <<>> THEN self
    ELSE LET item == Lower(Strip(Field(Head(ingredients), "item", <<>>)))
             next == IF item # <<>> /\ Len(item) > 2
                     THEN [self EXCEPT
                             !.ingredient_index = SetAdd(@, item, recipe_id),
                             !.all_ingredients = @ \cup {item}]
                     ELSE self
         IN  add_ingredients(next, recipe_id, Tail(ingredients))

\* buckets in which a total of 60 minutes is long
duration_bucket_below(total_time) ==
    IF total_time < 30 THEN "quick"
    ELSE IF total_time < 60 THEN "medium"
    ELSE "long"

\* the duration bucket a recipe is put into
duration_bucket(total_time) ==
    IF total_time < 30 THEN "quick"
    ELSE IF total_time <= 60 THEN "medium"
    ELSE "long"

\* an add_recipe that leaves a recipe out of the dimensions whose field it has not
add_recipe_present_fields(self, recipe_id, recipe_data) ==
    LET indexed(index, name) ==
            IF name \in DOMAIN recipe_data
            THEN SetAdd(index, recipe_data[name], recipe_id) ELSE index
    IN  [self EXCEPT
           !.country_index = indexed(@, "country"),
           !.category_index = indexed(@, "category"),
           !.difficulty_index = indexed(@, "difficulty"),
           !.meal_type_index = indexed(@, "meal_type"),
           !.cooking_method_index = indexed(@, "cooking_method")]

\* add_recipe(recipe_id, recipe_data)
FacetIndex_add_recipe(self, recipe_id, recipe_data) ==
    LET country == Field(recipe_data, "country", "Unknown")
        category == Field(recipe_data, "category", "Unknown")
        difficulty == Field(recipe_data, "difficulty", "Unknown")
        meal_type == Field(recipe_data, "meal_type", "Unknown")
        cooking_method == Field(recipe_data, "cooking_method", "Unknown")
        facets == [self EXCEPT
                     !.country_index = SetAdd(@, country, recipe_id),
                     !.all_countries = @ \cup {country},
                     !.category_index = SetAdd(@, category, recipe_id),
                     !.all_categories = @ \cup {category},
                     !.difficulty_index = SetAdd(@, difficulty, recipe_id),
                     !.all_difficulties = @ \cup {difficulty},
                     !.meal_type_index = SetAdd(@, meal_type, recipe_id),
                     !.all_meal_types = @ \cup {meal_type},
                     !.cooking_method_index = SetAdd(@, cooking_method, recipe_id),
                     !.all_cooking_methods = @ \cup {cooking_method}]
        withIngredients ==
            add_ingredients(facets, recipe_id, Field(recipe_data, "ingredients", <<>>))
        total_time == Field(Field(recipe_data, "duration", <<>>), "total", 0)
    IN  [withIngredients EXCEPT
           !.duration_index = SetAdd(@, duration_bucket(total_time), recipe_id)]

\* base_set without the loop over index.values(): the ids under the first key alone
base_set_first_key(self) ==
    IF self.country_index # <<>> THEN self.country_index[1].v
    ELSE IF self.category_index # <<>> THEN self.category_index[1].v
    ELSE IF self.difficulty_index # <<>> THEN self.difficulty_index[1].v
    ELSE {}

\* the base set: all ids of the first non-empty index among country, category, difficulty
base_set(self) ==
    IF self.country_index # <<>> THEN Values(self.country_index)
    ELSE IF self.category_index # <<>> THEN Values(self.category_index)
    ELSE IF self.difficulty_index # <<>> THEN Values(self.difficulty_index)
    ELSE {}

\* 'name' in filters and filters[name], for a string, a number and a list
Given(filters, name) ==
    /\ name \in DOMAIN filters
    /\ filters[name] # (CASE name = "max_time" -> 0
                          [] name \in {"ingredients", "exclude_ingredients"} -> <<>>
                          [] OTHER -> "")

\* an exact-match filter that replaces filtered_ids instead of intersecting it
exact_filter_replace(filtered_ids, index, filters, name) ==
    IF Given(filters, name)
    THEN Get(index, filters[name], {})
    ELSE filtered_ids

\* one exact-match filter
exact_filter(filtered_ids, index, filters, name) ==
    IF Given(filters, name)
    THEN filtered_ids \cap Get(index, filters[name], {})
    ELSE filtered_ids

\* a max_time filter that takes the medium bucket only above 30
time_filter_above(self, filtered_ids, filters) ==
    IF Given(filters, "max_time")
    THEN LET d == self.duration_index
             time_ids == UNION {d[i].v : i \in {j \in DOMAIN d :
                            d[j].k = "quick" \/ (d[j].k = "medium" /\ filters["max_time"] > 30)}}
         IN  filtered_ids \cap time_ids
    ELSE filtered_ids

\* the max_time filter
\* a filter by max_time that keeps the medium bucket for every threshold
time_filter_medium(self, filtered_ids, filters) ==
    IF Given(filters, "max_time")
    THEN LET d == self.duration_index
             time_ids == UNION {d[i].v : i \in {j \in DOMAIN d :
                            d[j].k = "quick" \/ d[j].k = "medium"}}
         IN  filtered_ids \cap time_ids
    ELSE filtered_ids

time_filter(self, filtered_ids, filters) ==
    IF Given(filters, "max_time")
    THEN LET d == self.duration_index
             time_ids == UNION {d[i].v : i \in {j \in DOMAIN d :
                            d[j].k = "quick" \/ (d[j].k = "medium" /\ filters["max_time"] >= 30)}}
         IN  filtered_ids \cap time_ids
    ELSE filtered_ids

\* a loop over filters['ingredients'] that keeps the recipes of any of the ingredients
require_any_ingredient(self, filtered_ids, ingredients) ==
    filtered_ids \cap UNION {Get(self.ingredient_index, Lower(Strip(ingredients[i])), {})
                                : i \in DOMAIN ingredients}

\* the loop over filters['ingredients']
RECURSIVE require_ingredients(_, _, _)
require_ingredients(self, filtered_ids, ingredients) ==
    IF ingredients = <<>> THEN filtered_ids
    ELSE require_ingredients(self,
             filtered_ids \cap Get(self.ingredient_index, Lower(Strip(Head(ingredients))), {}),
             Tail(ingredients))

\* the loop over filters['exclude_ingredients']
RECURSIVE exclude_ingredients(_, _, _)
exclude_ingredients(self, filtered_ids, ingredients) ==
    IF ingredients = <<>> THEN filtered_ids
    ELSE exclude_ingredients(self,
             filtered_ids \ Get(self.ingredient_index, Lower(Strip(Head(ingredients))), {}),
             Tail(ingredients))

filter_recipes(self, filters) ==
    IF self.country_index = <<>> /\ self.category_index = <<>> THEN {}
    ELSE
    LET f0 == base_set(self)
        f1 == exact_filter(f0, self.country_index, filters, "country")
        f2 == exact_filter(f1, self.category_index, filters, "category")
        f3 == exact_filter(f2, self.difficulty_index, filters, "difficulty")
        f4 == exact_filter(f3, self.meal_type_index, filters, "meal_type")
        f5 == exact_filter(f4, self.cooking_method_index, filters, "cooking_method")
        f6 == time_filter(self, f5, filters)
        f7 == IF Given(filters, "ingredients")
              THEN require_ingredients(self, f6, filters["ingredients"]) ELSE f6
    IN  IF Given(filters, "exclude_ingredients")
        THEN exclude_ingredients(self, f7, filters["exclude_ingredients"]) ELSE f7

\* list(v) of a set: the elements in some order; load() reads it back with set(v)
RECURSIVE SetToList(_)
SetToList(S) ==
    IF S = {} THEN <<>>
    ELSE LET x == CHOOSE y \in S : TRUE IN <<x>> \o SetToList(S \ {x})

\* set(v) of a list
ListToSet(l) == {l[i] : i \in DOMAIN l}

\* {k: list(v) for k, v in index.items()}
dump_index(index) == [i \in DOMAIN index |-> [k |-> index[i].k, v |-> SetToList(index[i].v)]]

\* the dict that save() pickles
FacetIndex_save(self) ==
    [country_index |-> dump_index(self.country_index),
     category_index |-> dump_index(self.category_index),
     difficulty_index |-> dump_index(self.difficulty_index),
     meal_type_index |-> dump_index(self.meal_type_index),
     cooking_method_index |-> dump_index(self.cooking_method_index),
     ingredient_index |-> dump_index(self.ingredient_index),
     duration_index |-> dump_index(self.duration_index)]

\* no file at the path
NoFile == [exists |-> FALSE]

\* a file holding the pickled data
File(data) == [exists |-> TRUE, data |-> data]

\* the attribute names load() walks through, in its order
facet_attr_names ==
    <<"country_index", "category_index", "difficulty_index",
      "meal_type_index", "cooking_method_index", "ingredient_index">>

\* f'all_{attr_name.replace("_index", "").replace("cooking_method", "cooking_methods")}'
all_attr_name(attr_name) ==
    CASE attr_name = "country_index" -> "all_country"
      [] attr_name = "category_index" -> "all_category"
      [] attr_name = "difficulty_index" -> "all_difficulty"
      [] attr_name = "meal_type_index" -> "all_meal_type"
      [] attr_name = "cooking_method_index" -> "all_cooking_methods"
      [] attr_name = "ingredient_index" -> "all_ingredient"

\* the inner loop of load(): index_dict[k] = set(v), then getattr(self, 'all_...').add(k);
\* getattr raises AttributeError when the object has no such attribute
RECURSIVE load_entries(_, _, _)
load_entries(st, attr_name, entries) ==
    IF st.raised \/ entries = <<>> THEN st
    ELSE LET e == Head(entries)
             stored == [st.self EXCEPT ![attr_name] = SetItem(@, e.k, ListToSet(e.v))]
             all_name == all_attr_name(attr_name)
         IN  IF all_name \in DOMAIN stored
             THEN load_entries([self |-> [stored EXCEPT ![all_name] = @ \cup {e.k}],
                                raised |-> FALSE], attr_name, Tail(entries))
             ELSE [self |-> stored, raised |-> TRUE]

\* the outer loop of load(): index_dict.clear(), then the entries of the file
RECURSIVE load_attrs(_, _, _)
load_attrs(st, attr_names, data) ==
    IF st.raised \/ attr_names = <<>> THEN st
    ELSE LET attr_name == Head(attr_names)
             cleared == [self |-> [st.self EXCEPT ![attr_name] = <<>>], raised |-> FALSE]
         IN  load_attrs(load_entries(cleared, attr_name, data[attr_name]),
                        Tail(attr_names), data)

\* load(): the object afterwards, and the value returned
FacetIndex_load(self, file) ==
    IF ~file.exists THEN [self |-> self, ret |-> FALSE]
    ELSE LET st == load_attrs([self |-> self, raised |-> FALSE], facet_attr_names, file.data)
             d == file.data.duration_index
         IN  IF st.raised THEN [self |-> st.self, ret |-> FALSE]
             ELSE [self |-> [st.self EXCEPT !.duration_index =
                               [i \in DOMAIN d |-> [k |-> d[i].k, v |-> ListToSet(d[i].v)]]],
                   ret |-> TRUE]

----------------------------------------------------------------------------
(* InvertedIndex. *)

\* word_tokenize: the words of a text, split at blanks
RECURSIVE Tokenize(_, _)
Tokenize(text, word) ==
    IF text = <<>> THEN (IF word = <<>> THEN <<>> ELSE <<word>>)
    ELSE IF Head(text) = " "
         THEN (IF word = <<>> THEN <<>> ELSE <<word>>) \o Tokenize(Tail(text), <<>>)
         ELSE Tokenize(Tail(text), Append(word, Head(text)))

word_tokenize(text) == Tokenize(text, <<>>)

\* char.isalnum()
Alnum ==
    {"a", "b", "c", "d", "e", "f", "g", "h", "i", "j", "k", "l", "m", "n", "o", "p", "q",
     "r", "s", "t", "u", "v", "w", "x", "y", "z", "0", "1", "2", "3", "4", "5", "6", "7",
     "8", "9"}

isalnum(char) == char \in Alnum

\* stopwords.words('english'): the words of it that the texts use
stop_words == {<<"t", "h", "e">>, <<"a", "n", "d">>}

\* self.recipe_stop_words
recipe_stop_words ==
    {<<"r", "e", "c", "i", "p", "e">>,
     <<"m", "a", "k", "e">>,
     <<"p", "r", "e", "p", "a", "r", "e">>,
     <<"c", "o", "o", "k">>,
     <<"s", "e", "r", "v", "e">>,
     <<"i", "n", "g", "r", "e", "d", "i", "e", "n", "t">>,
     <<"s", "t", "e", "p">>,
     <<"m", "i", "n", "u", "t", "e">>,
     <<"h", "o", "u", "r">>,
     <<"c", "u", "p">>,
     <<"t", "a", "b", "l", "e", "s", "p", "o", "o", "n">>,
     <<"t", "e", "a", "s", "p", "o", "o", "n">>,
     <<"g", "r", "a", "m">>,
     <<"o", "u", "n", "c", "e">>,
     <<"o", "p", "t", "i", "o", "n", "a", "l">>}

\* WordNetLemmatizer.lemmatize on the words of the texts: a plural noun gives its singular
lemmatize(token) ==
    CASE token = <<"c", "u", "p", "s">> -> <<"c", "u", "p">>
      [] token = <<"e", "g", "g", "s">> -> <<"e", "g", "g">>
      [] OTHER -> token

\* a loop over the tokens that drops no stop word
RECURSIVE process_stop_words(_)
process_stop_words(tokens) ==
    IF tokens = <<>> THEN <<>>
    ELSE LET token == SelectSeq(Head(tokens), isalnum)
         IN  IF token = <<>> \/ Len(token) < 2 THEN process_stop_words(Tail(tokens))
             ELSE <<lemmatize(token)>> \o process_stop_words(Tail(tokens))

\* the loop of preprocess_text over the tokens
RECURSIVE process_tokens(_)
process_tokens(tokens) ==
    IF tokens = <<>> THEN <<>>
    ELSE LET token == SelectSeq(Head(tokens), isalnum)
         IN  IF token = <<>> \/ Len(token) < 2 THEN process_tokens(Tail(tokens))
             ELSE IF token \in stop_words \/ token \in recipe_stop_words
                  THEN process_tokens(Tail(tokens))
                  ELSE <<lemmatize(token)>> \o process_tokens(Tail(tokens))

preprocess_text(text) ==
    IF text = <<>> THEN <<>> ELSE process_tokens(word_tokenize(Lower(text)))

\* separator.join(parts)
RECURSIVE join_with(_, _)
join_with(separator, parts) ==
    IF parts = <<>> THEN <<>>
    ELSE IF Len(parts) = 1 THEN parts[1]
    ELSE parts[1] \o separator \o join_with(separator, Tail(parts))

\* ' '.join(parts)
join(parts) == join_with(<<" ">>, parts)

\* ' '.join(f"{ing.get('item', '')} {ing.get('quantity', '')}" for ing in ingredients)
ingredients_text(ingredients) ==
    join([i \in DOMAIN ingredients |->
            Field(ingredients[i], "item", <<>>) \o <<" ">> \o Field(ingredients[i], "quantity", <<>>)])

InvertedIndex_init == [index |-> <<>>, recipe_terms |-> <<>>, total_recipes |-> 0]

\* the loop that would index a term for the first recipe that holds it only
RECURSIVE index_new_terms(_, _, _)
index_new_terms(index, terms, recipe_id) ==
    IF terms = <<>> THEN index
    ELSE index_new_terms(IF HasKey(index, Head(terms)) THEN index
                         ELSE SetAdd(index, Head(terms), recipe_id),
                         Tail(terms), recipe_id)

\* for term in terms: self.index[term].add(recipe_id)
RECURSIVE index_terms(_, _, _)
index_terms(index, terms, recipe_id) ==
    IF terms = <<>> THEN index
    ELSE index_terms(SetAdd(index, Head(terms), recipe_id), Tail(terms), recipe_id)

\* the terms of a recipe, field after field
recipe_term_list(recipe_data) ==
    preprocess_text(Field(recipe_data, "title", <<>>))
    \o preprocess_text(Field(recipe_data, "description", <<>>))
    \o preprocess_text(ingredients_text(Field(recipe_data, "ingredients", <<>>)))
    \o preprocess_text(join(Field(recipe_data, "tags", <<>>)))
    \o preprocess_text(join(Field(recipe_data, "instructions", <<>>)))

\* the orders in which the elements of a set can be iterated
Orders(S) ==
    {s \in [1..Cardinality(S) -> S] : \A i, j \in 1..Cardinality(S) : s[i] = s[j] => i = j}

\* add_recipe; terms_list is list(recipe_terms), one of the orders of the set of terms
InvertedIndex_add_recipe(self, recipe_id, recipe_data, terms_list) ==
    [index |-> index_terms(self.index, recipe_term_list(recipe_data), recipe_id),
     recipe_terms |-> SetItem(self.recipe_terms, recipe_id, terms_list),
     total_recipes |-> self.total_recipes + 1]

\* the scores are counted in units of 1/ScoreScale, which 1/(n + 1) divides for the
\* sizes n of the posting sets of the model
ScoreScale == 3 * 4 * 5

\* an idf without the one added to the size of the posting set
idf_of_size(self, term) == ScoreScale \div Cardinality(Get(self.index, term, {}))

\* idf = 1.0 / (len(self.index[term]) + 1)
idf(self, term) == ScoreScale \div (Cardinality(Get(self.index, term, {})) + 1)

\* scores[recipe_id] after the loop over the query terms
RECURSIVE score(_, _, _)
score(self, query_terms, recipe_id) ==
    IF query_terms = <<>> THEN 0
    ELSE (IF HasKey(self.index, Head(query_terms))
             /\ recipe_id \in Get(self.index, Head(query_terms), {})
          THEN idf(self, Head(query_terms)) ELSE 0)
         + score(self, Tail(query_terms), recipe_id)

\* a loop over the query terms that gives up at a term that is not a key of the index
RECURSIVE scored_orders_all_known(_, _, _)
scored_orders_all_known(self, query_terms, scored) ==
    IF query_terms = <<>> THEN {scored}
    ELSE IF ~HasKey(self.index, Head(query_terms)) THEN {<<>>}
    ELSE LET fresh(recipe_id) == recipe_id \notin ListToSet(scored)
         IN  UNION {scored_orders_all_known(self, Tail(query_terms),
                                            scored \o SelectSeq(order, fresh))
                        : order \in Orders(Get(self.index, Head(query_terms), {}))}

\* the orders in which the loop can insert the recipe ids into scores: each posting set
\* is iterated in one of its orders, and an id keeps the place of its first insertion
RECURSIVE scored_orders(_, _, _)
scored_orders(self, query_terms, scored) ==
    IF query_terms = <<>> THEN {scored}
    ELSE LET posting == IF HasKey(self.index, Head(query_terms))
                        THEN Get(self.index, Head(query_terms), {}) ELSE {}
             fresh(recipe_id) == recipe_id \notin ListToSet(scored)
         IN  UNION {scored_orders(self, Tail(query_terms), scored \o SelectSeq(order, fresh))
                        : order \in Orders(posting)}

\* one step of sorted(..., reverse=True), which is stable: item goes before the items
\* that come after it in the input and have no greater score
RECURSIVE insert_sorted(_, _)
insert_sorted(item, sorted) ==
    IF sorted = <<>> THEN <<item>>
    ELSE IF Head(sorted)[2] > item[2] THEN <<Head(sorted)>> \o insert_sorted(item, Tail(sorted))
    ELSE <<item>> \o sorted

\* sorted(items, key=lambda x: x[1], reverse=True)
RECURSIVE sorted_reverse(_)
sorted_reverse(items) ==
    IF items = <<>> THEN <<>> ELSE insert_sorted(Head(items), sorted_reverse(Tail(items)))

\* a slice that stops one item early
slice_short(items, stop) ==
    SubSeq(items, 1, (IF stop < Len(items) THEN stop ELSE Len(items)) - 1)

\* items[:stop]
slice_to(items, stop) ==
    IF stop >= 0 THEN SubSeq(items, 1, IF stop < Len(items) THEN stop ELSE Len(items))
    ELSE SubSeq(items, 1, Len(items) + stop)

\* the lists that search(query, top_k) can return, one for each iteration order
InvertedIndex_search(self, query, top_k) ==
    LET query_terms == preprocess_text(query)
    IN  IF query_terms = <<>> THEN {<<>>}
        ELSE {slice_to(sorted_reverse([i \in DOMAIN scored |->
                                          <<scored[i], score(self, query_terms, scored[i])>>]),
                       top_k)
                 : scored \in scored_orders(self, query_terms, <<>>)}

\* the suggestions in the order of the keys of the index, without the sort
get_suggestions_unsorted(self, prefix, limit) ==
    LET matches(entry) == StartsWith(entry.k, Lower(prefix))
        found == SelectSeq(self.index, matches)
    IN  [i \in DOMAIN slice_to(found, limit) |-> found[i].k]

\* get_suggestions(prefix, limit): the keys of the index, in their order of
\* insertion, that start with prefix.lower(), sorted by frequency
InvertedIndex_get_suggestions(self, prefix, limit) ==
    LET matches(entry) == StartsWith(entry.k, Lower(prefix))
        found == SelectSeq(self.index, matches)
        suggestions == [i \in DOMAIN found |-> <<found[i].k, Cardinality(found[i].v)>>]
        cut == slice_to(sorted_reverse(suggestions), limit)
    IN  [i \in DOMAIN cut |-> cut[i][1]]

\* for k, v in data['index'].items(): self.index[k] = set(v)
load_index(data_index) ==
    [i \in DOMAIN data_index |-> [k |-> data_index[i].k, v |-> ListToSet(data_index[i].v)]]

\* the data that save pickles
InvertedIndex_save(self) ==
    [index |-> dump_index(self.index),
     recipe_terms |-> self.recipe_terms,
     total_recipes |-> self.total_recipes]

\* load: the object after the call and the value returned.  A key that the pickled data
\* lacks raises KeyError after the assignments that precede its lookup
InvertedIndex_load(self, file) ==
    IF ~file.exists THEN [self |-> self, ret |-> FALSE]
    ELSE LET data == file.data
             emptied == [self EXCEPT !.index = <<>>]
         IN  IF "index" \notin DOMAIN data THEN [self |-> emptied, ret |-> FALSE]
             ELSE LET indexed == [self EXCEPT !.index = load_index(data.index)]
                  IN  IF "recipe_terms" \notin DOMAIN data THEN [self |-> indexed, ret |-> FALSE]
                      ELSE IF "total_recipes" \notin DOMAIN data
                      THEN [self |-> [indexed EXCEPT !.recipe_terms = data.recipe_terms],
                            ret |-> FALSE]
                      ELSE [self |-> [index |-> load_index(data.index),
                                      recipe_terms |-> data.recipe_terms,
                                      total_recipes |-> data.total_recipes],
                            ret |-> TRUE]

----------------------------------------------------------------------------
(* FaissService. *)

\* the characters of a facet value, which the recipes hold as one string
Chars(value) ==
    CASE value = "South Korea" -> <<"S", "o", "u", "t", "h", " ", "K", "o", "r", "e", "a">>
      [] value = "USA" -> <<"U", "S", "A">>
      [] value = "Italy" -> <<"I", "t", "a", "l", "y">>
      [] value = "Main" -> <<"M", "a", "i", "n">>
      [] value = "Snack" -> <<"S", "n", "a", "c", "k">>
      [] value = "" -> <<>>

\* prepare_recipe_text
prepare_recipe_text(recipe) ==
    LET title == Field(recipe, "title", <<>>)
        description == Field(recipe, "description", <<>>)
        ingredients == Field(recipe, "ingredients", <<>>)
        tags == Field(recipe, "tags", <<>>)
        category == Chars(Field(recipe, "category", ""))
        country == Chars(Field(recipe, "country", ""))
        ingredient_names ==
            [i \in 1..(IF Len(ingredients) < 8 THEN Len(ingredients) ELSE 8) |->
                Field(ingredients[i], "item", <<>>)]
        text_parts ==
            (IF title # <<>> THEN <<title, title>> ELSE <<>>)
            \o (IF description # <<>> THEN <<description>> ELSE <<>>)
            \o (IF ingredients # <<>> THEN <<join_with(<<",", " ">>, ingredient_names)>>
                ELSE <<>>)
            \o (IF tags # <<>> THEN <<join_with(<<",", " ">>, tags)>> ELSE <<>>)
            \o (IF category # <<>> THEN <<category>> ELSE <<>>)
            \o (IF country # <<>> THEN <<country>> ELSE <<>>)
    IN  join_with(<<".", " ">>, text_parts)

\* self.model.encode: the sentence encoder, a function of the text alone.  The vectors
\* have one integer coordinate
encode(text) ==
    CASE text = prepare_recipe_text(Chicken) -> <<0>>
      [] text = prepare_recipe_text(Pasta) -> <<1>>
      [] text = prepare_recipe_text(BeefRice) -> <<2>>
      [] text = prepare_recipe_text(Snack) -> <<3>>
      [] text = prepare_recipe_text(NoId) -> <<2>>
      [] text = garlic -> <<1>>
      [] text = rice -> <<2>>
      [] OTHER -> <<0>>

\* test_embedding.shape[1]
dimension == Len(encode(<<"t", "e", "s", "t">>))

\* the squared L2 distance of IndexFlatL2
RECURSIVE L2sqr(_, _)
L2sqr(x, y) ==
    IF x = <<>> THEN 0
    ELSE (Head(x) - Head(y)) * (Head(x) - Head(y)) + L2sqr(Tail(x), Tail(y))

\* index.search(query, k): the lists of k positions (from 0) of the nearest vectors by
\* ascending distance; vectors at the same distance come in any order
index_search(vectors, query, k) ==
    LET ntotal == Len(vectors)
        distance(idx) == L2sqr(vectors[idx + 1], query)
    IN  {indices \in [1..k -> 0..(ntotal - 1)] :
            /\ \A i, j \in 1..k : i < j =>
                   /\ indices[i] # indices[j]
                   /\ distance(indices[i]) <= distance(indices[j])
            /\ \A idx \in 0..(ntotal - 1) :
                   (\A i \in 1..k : indices[i] # idx) =>
                       \A i \in 1..k : distance(indices[i]) <= distance(idx)}

\* min(a, b)
min(a, b) == IF a < b THEN a ELSE b

FaissService_init ==
    [model_name |-> "paraphrase-MiniLM-L3-v2",
     index |-> <<>>,
     embeddings |-> None,
     recipes |-> <<>>,
     recipe_ids |-> <<>>,
     id_to_index |-> <<>>,
     index_to_id |-> <<>>,
     dimension |-> dimension]

\* for idx, recipe_id in enumerate(self.recipe_ids): the two mappings
RECURSIVE create_mapping(_, _, _)
create_mapping(self, recipe_ids, idx) ==
    IF idx >= Len(recipe_ids) THEN self
    ELSE create_mapping(
             [self EXCEPT !.id_to_index = SetItem(@, recipe_ids[idx + 1], idx),
                          !.index_to_id = SetItem(@, idx, recipe_ids[idx + 1])],
             recipe_ids, idx + 1)

\* f'recipe_{i}'
default_id(i) == <<"recipe_0", "recipe_1", "recipe_2", "recipe_3", "recipe_4">>[i + 1]

\* add_recipes(recipes); index is the list of the vectors of the FAISS index, to which
\* index.add appends
FaissService_add_recipes(self, recipes) ==
    IF recipes = <<>> THEN self
    ELSE LET recipe_ids == [i \in DOMAIN recipes |->
                               Field(recipes[i], "id", default_id(i - 1))]
             embeddings == [i \in DOMAIN recipes |-> encode(prepare_recipe_text(recipes[i]))]
             mapped == create_mapping(self, recipe_ids, 0)
         IN  [mapped EXCEPT !.recipes = recipes,
                            !.recipe_ids = recipe_ids,
                            !.embeddings = embeddings,
                            !.index = @ \o embeddings]

\* add_recipes(recipes) statement by statement: the states of the object after
\* self.recipes, self.recipe_ids, the two mappings and self.embeddings were assigned
\* and after index.add, in this order
add_recipes_states(self, recipes) ==
    LET recipe_ids == [i \in DOMAIN recipes |->
                          Field(recipes[i], "id", default_id(i - 1))]
        embeddings == [i \in DOMAIN recipes |-> encode(prepare_recipe_text(recipes[i]))]
        s1 == [self EXCEPT !.recipes = recipes]
        s2 == [s1 EXCEPT !.recipe_ids = recipe_ids]
        s3 == create_mapping(s2, recipe_ids, 0)
        s4 == [s3 EXCEPT !.embeddings = embeddings]
        s5 == [s4 EXCEPT !.index = @ \o embeddings]
    IN  <<s1, s2, s3, s4, s5>>

\* the dict d with d[name] = value
With(d, name, value) ==
    [x \in DOMAIN d \cup {name} |-> IF x = name THEN value ELSE d[x]]

\* 1.0 / (1.0 + distance), counted in units of 1/SimilarityScale, which 1 + distance
\* divides for the distances of the vectors of the model
SimilarityScale == 2 * 5

similarity(distance) == SimilarityScale \div (1 + distance)

\* the loop of semantic_search over the positions that the index returned, from entry i
RECURSIVE search_loop(_, _, _, _, _, _)
search_loop(self, query_embedding, indices, k, i, results) ==
    IF i > Len(indices) THEN results
    ELSE LET idx == indices[i]
             distance == L2sqr(self.index[idx + 1], query_embedding)
             recipe_id == Get(self.index_to_id, idx, None)
             appended ==
                 Append(results,
                        With(With(With(self.recipes[idx + 1],
                             "semantic_score", similarity(distance)),
                             "semantic_distance", distance),
                             "semantic_rank", i))
         IN  IF idx < 0 \/ idx >= Len(self.recipes) \/ recipe_id \in {None, ""}
             THEN search_loop(self, query_embedding, indices, k, i + 1, results)
             ELSE IF Len(appended) >= k THEN appended
             ELSE search_loop(self, query_embedding, indices, k, i + 1, appended)

\* the lists that semantic_search(query, k) can return
FaissService_semantic_search(self, query, k) ==
    IF Len(self.index) = 0 THEN {<<>>}
    ELSE {search_loop(self, encode(query), indices, k, 1, <<>>)
             : indices \in index_search(self.index, encode(query), min(k, Len(self.index)))}

\* the loop of find_similar_recipes that keeps the recipe itself when it is not the
\* first of the positions
RECURSIVE similar_loop_by_position(_, _, _, _, _, _, _)
similar_loop_by_position(self, recipe_id, recipe_embedding, indices, k, i, results) ==
    IF i > Len(indices) THEN results
    ELSE LET idx_result == indices[i]
             distance == L2sqr(self.index[idx_result + 1], recipe_embedding)
             result_id == Get(self.index_to_id, idx_result, None)
             appended ==
                 Append(results,
                        With(With(self.recipes[idx_result + 1],
                             "similarity_score", similarity(distance)),
                             "similarity_distance", distance))
         IN  IF \/ i = 1
                \/ idx_result < 0 \/ idx_result >= Len(self.recipes)
                \/ result_id \in {None, ""}
             THEN similar_loop_by_position(self, recipe_id, recipe_embedding, indices, k,
                                           i + 1, results)
             ELSE IF Len(appended) >= k THEN appended
             ELSE similar_loop_by_position(self, recipe_id, recipe_embedding, indices, k,
                                           i + 1, appended)

\* the loop of find_similar_recipes over the positions that the index returned, from entry i
RECURSIVE similar_loop(_, _, _, _, _, _, _)
similar_loop(self, recipe_id, recipe_embedding, indices, k, i, results) ==
    IF i > Len(indices) THEN results
    ELSE LET idx_result == indices[i]
             distance == L2sqr(self.index[idx_result + 1], recipe_embedding)
             result_id == Get(self.index_to_id, idx_result, None)
             appended ==
                 Append(results,
                        With(With(self.recipes[idx_result + 1],
                             "similarity_score", similarity(distance)),
                             "similarity_distance", distance))
         IN  IF \/ i = 1
                \/ idx_result < 0 \/ idx_result >= Len(self.recipes)
                \/ result_id \in {None, ""} \/ result_id = recipe_id
             THEN similar_loop(self, recipe_id, recipe_embedding, indices, k, i + 1, results)
             ELSE IF Len(appended) >= k THEN appended
             ELSE similar_loop(self, recipe_id, recipe_embedding, indices, k, i + 1, appended)

\* a call that returns value, and a call that raises exception
Returns(value) == [exception |-> None, value |-> value]

Raises(exception) == [exception |-> exception, value |-> None]

\* the outcomes that find_similar_recipes(recipe_id, k) can have.  self.embeddings[idx:idx+1]
\* is empty when idx is past the last row, and distances[0] of a search for no vector
\* raises IndexError
FaissService_find_similar_recipes(self, recipe_id, k) ==
    IF ~HasKey(self.id_to_index, recipe_id) THEN {Returns(<<>>)}
    ELSE LET idx == Get(self.id_to_index, recipe_id, None)
         IN  IF idx >= Len(self.embeddings) THEN {Raises("IndexError")}
             ELSE {Returns(similar_loop(self, recipe_id, self.embeddings[idx + 1],
                                        indices, k, 1, <<>>))
                      : indices \in index_search(self.index, self.embeddings[idx + 1],
                                                 min(k + 1, Len(self.index)))}

\* the metadata that save pickles
FaissService_metadata(self) ==
    [recipes |-> self.recipes,
     recipe_ids |-> self.recipe_ids,
     embeddings |-> self.embeddings,
     id_to_index |-> self.id_to_index,
     index_to_id |-> self.index_to_id,
     model_name |-> self.model_name,
     dimension |-> self.dimension]

\* load: the object after the call and the value returned
FaissService_load(self, index_file, metadata_file) ==
    IF ~index_file.exists THEN [self |-> self, ret |-> FALSE]
    ELSE LET read == [self EXCEPT !.index = index_file.data]
             metadata == metadata_file.data
         IN  IF ~metadata_file.exists THEN [self |-> read, ret |-> FALSE]
             ELSE [self |-> [index |-> index_file.data,
                             recipes |-> metadata.recipes,
                             recipe_ids |-> metadata.recipe_ids,
                             embeddings |-> metadata.embeddings,
                             id_to_index |-> metadata.id_to_index,
                             index_to_id |-> metadata.index_to_id,
                             model_name |-> metadata.model_name,
                             dimension |-> metadata.dimension],
                   ret |-> TRUE]

----------------------------------------------------------------------------
(* The application (app.py). *)

\* the weights of the two scores, in tenths
SemanticWeight == 7

TextWeight == 3

\* results[:20]
ResponseLimit == 20

\* the inverted indexes that the loop of create_app can build from recipes[i..]
RECURSIVE build_inverted(_, _, _)
build_inverted(inverted_index, recipes, i) ==
    IF i > Len(recipes) THEN {inverted_index}
    ELSE UNION {build_inverted(
                    InvertedIndex_add_recipe(inverted_index, recipes[i].id, recipes[i],
                                             terms_list),
                    recipes, i + 1)
                    : terms_list \in Orders(ListToSet(recipe_term_list(recipes[i])))}

\* the facet index that the loop of create_app builds from recipes[i..]
RECURSIVE build_facets(_, _, _)
build_facets(facet_index, recipes, i) ==
    IF i > Len(recipes) THEN facet_index
    ELSE build_facets(FacetIndex_add_recipe(facet_index, recipes[i].id, recipes[i]),
                      recipes, i + 1)

\* create_app, for the recipes that the DataLoader read and one of the inverted indexes.
\* A service that is None is a field that the record of the application has not
create_app(recipes, inverted_index) ==
    IF recipes = <<>>
    THEN [recipes |-> <<>>]
    ELSE [recipes |-> recipes,
          faiss_service |-> FaissService_add_recipes(FaissService_init, recipes),
          inverted_index |-> inverted_index,
          facet_index |-> build_facets(FacetIndex_init, recipes, 1)]

\* a response of the application
Response(status, body) == [status |-> status, body |-> body]

\* semantic_score * 0.7 and score * 0.3, counted in units of
\* 1 / (10 * SimilarityScale * ScoreScale)
semantic_hybrid_score(semantic_score) == SemanticWeight * ScoreScale * semantic_score

\* the text score taken whole, without its weight of 0.3
text_hybrid_score_unweighted(text_score) == 10 * SimilarityScale * text_score

text_hybrid_score(text_score) == TextWeight * SimilarityScale * text_score

\* the loop over text_search that builds text_results; found holds the recipe that
\* next((r for r in app.recipes if r['id'] == recipe_id), None) gives, if there is one
RECURSIVE text_results_of(_, _)
text_results_of(recipes, text_search) ==
    IF text_search = <<>> THEN <<>>
    ELSE LET has_id(r) == r.id = Head(text_search)[1]
             found == SelectSeq(recipes, has_id)
         IN  (IF found = <<>> THEN <<>>
              ELSE <<With(found[1], "hybrid_score", text_hybrid_score(Head(text_search)[2]))>>)
             \o text_results_of(recipes, Tail(text_search))

\* the loop that puts the semantic results into all_results
RECURSIVE add_semantic(_, _)
add_semantic(all_results, semantic_results) ==
    IF semantic_results = <<>> THEN all_results
    ELSE LET recipe == Head(semantic_results)
             recipe_id == Field(recipe, "id", None)
         IN  add_semantic(IF recipe_id \in {None, ""} THEN all_results
                          ELSE SetItem(all_results, recipe_id, recipe),
                          Tail(semantic_results))

\* a merge that stores the text result over the semantic one
RECURSIVE merge_text_replacing(_, _)
merge_text_replacing(all_results, text_results) ==
    IF text_results = <<>> THEN all_results
    ELSE merge_text_replacing(SetItem(all_results, Head(text_results).id, Head(text_results)),
                              Tail(text_results))

\* the loop that merges the text results into all_results
RECURSIVE merge_text(_, _)
merge_text(all_results, text_results) ==
    IF text_results = <<>> THEN all_results
    ELSE LET recipe == Head(text_results)
             recipe_id == Field(recipe, "id", None)
             present == Get(all_results, recipe_id, None)
         IN  merge_text(
                 IF HasKey(all_results, recipe_id)
                 THEN SetItem(all_results, recipe_id,
                              With(With(present, "hybrid_score",
                                        present.hybrid_score + recipe.hybrid_score),
                                   "text_score", Field(recipe, "text_score", 0)))
                 ELSE SetItem(all_results, recipe_id, recipe),
                 Tail(text_results))

\* one step of results.sort(key=hybrid_score, reverse=True), which is stable
RECURSIVE insert_by_hybrid_score(_, _)
insert_by_hybrid_score(recipe, sorted) ==
    IF sorted = <<>> THEN <<recipe>>
    ELSE IF Field(Head(sorted), "hybrid_score", 0) > Field(recipe, "hybrid_score", 0)
         THEN <<Head(sorted)>> \o insert_by_hybrid_score(recipe, Tail(sorted))
    ELSE <<recipe>> \o sorted

\* results.sort(key=lambda x: x.get('hybrid_score', 0), reverse=True)
RECURSIVE sort_by_hybrid_score(_)
sort_by_hybrid_score(results) ==
    IF results = <<>> THEN <<>>
    ELSE insert_by_hybrid_score(Head(results), sort_by_hybrid_score(Tail(results)))

\* the facet filter of the hybrid route raises TypeError at its first call of
\* filter_recipes(filters, specific_ids=...), a parameter that filter_recipes has not
filter_raises(application, filters, results) ==
    /\ "facet_index" \in DOMAIN application
    /\ DOMAIN filters # {}
    /\ \E i \in DOMAIN results : Field(results[i], "id", None) \notin {None, ""}

\* the hybrid route, for the lists that the two searches returned
hybrid_search(application, query, filters, semantic_found, text_search) ==
    IF query = <<>> THEN Response(400, [error |-> "Query parameter q is required"])
    ELSE LET semantic_results ==
                 [i \in DOMAIN semantic_found |->
                     With(semantic_found[i], "hybrid_score",
                          semantic_hybrid_score(Field(semantic_found[i], "semantic_score", 0)))]
             text_results == text_results_of(application.recipes, text_search)
             all_results == merge_text(add_semantic(<<>>, semantic_results), text_results)
             results == sort_by_hybrid_score([i \in DOMAIN all_results |-> all_results[i].v])
         IN  IF filter_raises(application, filters, results)
             THEN Response(500, [error |-> "TypeError"])
             ELSE Response(200, [query |-> query,
                                 search_type |-> "hybrid",
                                 filters |-> filters,
                                 count |-> Len(results),
                                 results |-> slice_to(results, ResponseLimit)])

\* the lists that the semantic search of the hybrid route can return
hybrid_semantic(application, query) ==
    IF "faiss_service" \in DOMAIN application
    THEN FaissService_semantic_search(application.faiss_service, query, SearchLimit)
    ELSE {<<>>}

\* the lists that the text search of the hybrid route can return
hybrid_text(application, query) ==
    IF "inverted_index" \in DOMAIN application
    THEN InvertedIndex_search(application.inverted_index, query, SearchLimit)
    ELSE {<<>>}

\* the outcomes that find_similar_recipes can have in the route of the similar recipes
similar_outcomes(application, recipe_id, k) ==
    IF "faiss_service" \in DOMAIN application
    THEN FaissService_find_similar_recipes(application.faiss_service, recipe_id, k)
    ELSE {Returns(<<>>)}

\* the route of the similar recipes, for the outcome of find_similar_recipes
get_similar_recipes(application, recipe_id, outcome) ==
    IF "faiss_service" \notin DOMAIN application
    THEN Response(503, [error |-> "Similar recipes not available"])
    ELSE IF outcome.exception # None THEN Response(500, [error |-> outcome.exception])
    ELSE Response(200, [source_recipe_id |-> recipe_id,
                        count |-> Len(outcome.value),
                        similar_recipes |-> outcome.value])

----------------------------------------------------------------------------
(* FacetIndex.suggest_ingredients, which sorts as the searches do. *)

\* the suggestions in the order of the iteration, without the sort
suggest_unsorted(self, prefix, limit) ==
    {LET matches(ingredient) == StartsWith(ingredient, Lower(prefix))
         found == SelectSeq(order, matches)
     IN  [ret |-> [i \in DOMAIN slice_to(found, limit) |->
                      [ingredient |-> found[i],
                       frequency |-> Cardinality(Get(self.ingredient_index, found[i], {}))]],
          self |-> [self EXCEPT !.ingredient_index = reads(@, found)]]
        : order \in Orders(self.all_ingredients)}

\* suggest_ingredients(prefix, limit), for each order in which the set all_ingredients
\* is iterated: the list returned, and the index after the reads
\* self.ingredient_index[ingredient] of the matching ingredients
suggest_ingredients(self, prefix, limit) ==
    {LET matches(ingredient) == StartsWith(ingredient, Lower(prefix))
         found == SelectSeq(order, matches)
         suggestions ==
             [i \in DOMAIN found |->
                 <<found[i], Cardinality(Get(self.ingredient_index, found[i], {}))>>]
         cut == slice_to(sorted_reverse(suggestions), limit)
     IN  [ret |-> [i \in DOMAIN cut |-> [ingredient |-> cut[i][1], frequency |-> cut[i][2]]],
          self |-> [self EXCEPT !.ingredient_index = reads(@, found)]]
        : order \in Orders(self.all_ingredients)}

----------------------------------------------------------------------------
(* get_stats of the three indexes. *)

\* sum(len(terms) for terms in self.recipe_terms.values())
RECURSIVE sum_of_lengths(_)
sum_of_lengths(recipe_terms) ==
    IF recipe_terms = <<>> THEN 0
    ELSE Len(Head(recipe_terms).v) + sum_of_lengths(Tail(recipe_terms))

\* InvertedIndex.get_stats(); the average is the pair of its numerator and denominator
InvertedIndex_get_stats(self) ==
    [total_terms |-> Len(self.index),
     total_recipes |-> self.total_recipes,
     avg_terms_per_recipe |->
         <<sum_of_lengths(self.recipe_terms),
           IF self.total_recipes > 1 THEN self.total_recipes ELSE 1>>,
     top_10_terms |->
         slice_to(sorted_reverse([i \in DOMAIN self.index |->
                                     <<self.index[i].k, Cardinality(self.index[i].v)>>]), 10)]

\* FacetIndex.get_stats()
FacetIndex_get_stats(self) ==
    [total_countries |-> Cardinality(self.all_countries),
     total_categories |-> Cardinality(self.all_categories),
     total_difficulties |-> Cardinality(self.all_difficulties),
     total_meal_types |-> Cardinality(self.all_meal_types),
     total_cooking_methods |-> Cardinality(self.all_cooking_methods),
     total_ingredients |-> Cardinality(self.all_ingredients),
     top_10_ingredients |->
         slice_to(sorted_reverse([i \in DOMAIN self.ingredient_index |->
                                     <<self.ingredient_index[i].k,
                                       Cardinality(self.ingredient_index[i].v)>>]), 10)]

\* a get_stats that counts the vectors from the dimension
get_stats_of_dimension(self) ==
    [total_recipes |-> Len(self.recipes),
     faiss_index_size |-> self.dimension,
     embedding_dimension |-> self.dimension,
     model_name |-> self.model_name]

\* FaissService.get_stats()
FaissService_get_stats(self) ==
    [total_recipes |-> Len(self.recipes),
     faiss_index_size |-> Len(self.index),
     embedding_dimension |-> self.dimension,
     model_name |-> self.model_name]

----------------------------------------------------------------------------
(* The calls on a FacetIndex.  facet_ret records the last call: its name,   *)
(* its argument and the value it returned.                                  *)

Call(op, arg, ret) == [op |-> op, arg |-> arg, ret |-> ret]

\* the calls that only read the index
Queries ==
    {"filter_recipes", "search", "semantic_search", "find_similar_recipes",
     "get_suggestions", "suggest_ingredients"}

\* dict restricted to some of its keys
Restrict(f, D) == [k \in D |-> f[k]]

\* the keys filter_recipes reads
FilterKeys ==
    {"country", "category", "difficulty", "meal_type", "cooking_method",
     "max_time", "ingredients", "exclude_ingredients"}

\* the ingredient lists a caller passes
IngredientLists == {<<garlic>>, <<<<" ", "R", "i", "c", "e">>, garlic>>}

ExcludeLists == {<<beef>>, <<beef, <<" ", "O", "i">>>>}

\* the filters a caller passes: any of the eight keys, each present or absent
Filters ==
    {Restrict(f, D) :
        f \in [country : {"Italy", "USA"}, category : {"Main"}, difficulty : {"easy"},
               meal_type : {"dinner"}, cooking_method : {"boiled"}, max_time : {20, 30},
               ingredients : IngredientLists, exclude_ingredients : ExcludeLists],
        D \in SUBSET FilterKeys}

\* for recipe in recipes: facet.add_recipe(recipe['id'], recipe)
FacetAddRecipe(recipe) ==
    /\ Cardinality(facet_recipes \cup {recipe}) <= MaxRecipes
    /\ facet_recipes' = facet_recipes \cup {recipe}
    /\ facet' = FacetIndex_add_recipe(facet, recipe.id, recipe)
    /\ facet_ret' = Call("add_recipe", recipe.id, None)
    /\ UNCHANGED <<new_facets, facet_file>>
    /\ UNCHANGED notFacet

\* the index after filter_recipes: index[first_key] is read in the first of the three
\* base indexes that is not empty, and every other posting set is read with .get
filter_reads(self) ==
    CASE self.country_index = <<>> /\ self.category_index = <<>> -> self
      [] self.country_index # <<>> ->
             [self EXCEPT !.country_index = getitem_default(@, @[1].k)]
      [] OTHER ->
             [self EXCEPT !.category_index = getitem_default(@, @[1].k)]

\* facet.filter_recipes(filters).  The call is made after a call that is not a query
FacetFilter(filters) ==
    /\ facet_ret.op \notin Queries
    /\ facet_ret' = Call("filter_recipes", filters, filter_recipes(facet, filters))
    /\ facet' = filter_reads(facet)
    /\ UNCHANGED <<facet_recipes, new_facets, facet_file>>
    /\ UNCHANGED notFacet

\* the prefixes and the limits of the suggestions
Prefixes == {<<>>, <<"g", "a", "r">>, <<"R">>, <<"c", "h">>}

Limits == {0, 1, 2, 10}

\* facet.suggest_ingredients(prefix, limit), after a call that is not a query
FacetSuggest(prefix, limit) ==
    /\ facet_ret.op \notin Queries
    /\ \E suggested \in suggest_ingredients(facet, prefix, limit) :
           /\ facet_ret' = Call("suggest_ingredients", [prefix |-> prefix, limit |-> limit],
                                suggested.ret)
           /\ facet' = suggested.self
    /\ UNCHANGED <<facet_recipes, new_facets, facet_file>>
    /\ UNCHANGED notFacet

\* facet.save(path)
FacetSave ==
    /\ facet_file' = File(FacetIndex_save(facet))
    /\ facet_ret' = Call("save", None, TRUE)
    /\ UNCHANGED <<facet_recipes, facet, new_facets>>
    /\ UNCHANGED notFacet

\* facet.load(path), on the object that holds an index already
FacetLoad ==
    /\ facet' = FacetIndex_load(facet, facet_file).self
    /\ facet_ret' = Call("load", None, FacetIndex_load(facet, facet_file).ret)
    /\ UNCHANGED <<facet_recipes, new_facets, facet_file>>
    /\ UNCHANGED notFacet

\* new_facets = FacetIndex(); new_facets.load(path)
FacetLoadNew ==
    /\ new_facets' = FacetIndex_load(FacetIndex_init, facet_file).self
    /\ facet_ret' = Call("new_load", None, FacetIndex_load(FacetIndex_init, facet_file).ret)
    /\ UNCHANGED <<facet_recipes, facet, facet_file>>
    /\ UNCHANGED notFacet

FacetInit ==
    /\ facet_recipes = {}
    /\ facet = FacetIndex_init
    /\ new_facets = FacetIndex_init
    /\ facet_file = NoFile
    /\ facet_ret = Call("init", None, None)

\* a FacetIndex that is built and queried
FacetBuildNext ==
    \/ \E recipe \in Recipes : FacetAddRecipe(recipe)
    \/ \E filters \in Filters : FacetFilter(filters)
    \/ \E prefix \in Prefixes, limit \in Limits : FacetSuggest(prefix, limit)

\* a FacetIndex that is built by add_recipe, saved, and loaded into a fresh object
FacetSaveNext ==
    \/ \E recipe \in Recipes : FacetAddRecipe(recipe)
    \/ FacetSave
    \/ FacetLoadNew

\* a FacetIndex that is built, saved and loaded
FacetNext ==
    \/ \E recipe \in Recipes : FacetAddRecipe(recipe)
    \/ FacetSave
    \/ FacetLoad
    \/ FacetLoadNew

\* a FacetIndex that is built, saved, loaded by the object that holds an index already,
\* and asked for suggestions after the load
FacetReloadNext ==
    \/ \E recipe \in Recipes : /\ Cardinality(facet_recipes \cup {recipe}) <= MaxSavedRecipes
                                /\ FacetAddRecipe(recipe)
    \/ FacetSave
    \/ FacetLoad
    \/ facet_ret.op = "load" /\ \E prefix \in Prefixes, limit \in Limits :
                                    FacetSuggest(prefix, limit)

----------------------------------------------------------------------------
(* The calls on an InvertedIndex. *)

\* the query texts
SearchQueries ==
    {garlic, rice, <<"G", "a", "r", "l", "i", "c", " ", "R", "i", "c", "e">>, <<"T", "h", "e">>,
     <<"c", "u", "p", "s">>, <<"c", "u", "p">>, <<"b", "e", "e", "f", " ", "s", "n", "a", "c", "k">>, <<>>}

\* the values of top_k
TopKs == {1, 2, 20}

\* a pickle at the path that another index wrote: the file of an empty FacetIndex
OtherFile == File(FacetIndex_save(FacetIndex_init))

\* inv.add_recipe(recipe.id, recipe), on an index of less than max_recipes recipes
InvAddRecipe(recipe, max_recipes) ==
    /\ inv.total_recipes < max_recipes
    /\ \E terms_list \in Orders(ListToSet(recipe_term_list(recipe))) :
           inv' = InvertedIndex_add_recipe(inv, recipe.id, recipe, terms_list)
    /\ inv_recipes' = inv_recipes \cup {recipe}
    /\ inv_ret' = Call("add_recipe", recipe.id, None)
    /\ UNCHANGED <<new_inv, inv_file>>
    /\ UNCHANGED notInv

\* the terms for which search reads self.index[term]: the query terms that pass
\* the test term in self.index
search_reads(self, query) ==
    LET known(term) == HasKey(self.index, term)
    IN  SelectSeq(preprocess_text(query), known)

\* inv.search(query, top_k), after a call that is not a query
InvSearch(query, top_k) ==
    /\ inv_ret.op \notin Queries
    /\ \E results \in InvertedIndex_search(inv, query, top_k) :
           inv_ret' = Call("search", [query |-> query, top_k |-> top_k], results)
    /\ inv' = [inv EXCEPT !.index = reads(@, search_reads(inv, query))]
    /\ UNCHANGED <<inv_recipes, new_inv, inv_file>>
    /\ UNCHANGED notInv

\* inv.get_suggestions(prefix, limit), after a call that is not a query
InvSuggest(prefix, limit) ==
    /\ inv_ret.op \notin Queries
    /\ inv_ret' = Call("get_suggestions", [prefix |-> prefix, limit |-> limit],
                       InvertedIndex_get_suggestions(inv, prefix, limit))
    /\ inv' = [inv EXCEPT !.index = reads(@, [i \in DOMAIN @ |-> @[i].k])]
    /\ UNCHANGED <<inv_recipes, new_inv, inv_file>>
    /\ UNCHANGED notInv

\* inv.save(path)
InvSave ==
    /\ inv_file' = File(InvertedIndex_save(inv))
    /\ inv_ret' = Call("save", None, TRUE)
    /\ UNCHANGED <<inv_recipes, inv, new_inv>>
    /\ UNCHANGED notInv

\* inv.load(path), on the object that holds an index already
InvLoad(file) ==
    /\ inv' = InvertedIndex_load(inv, file).self
    /\ inv_ret' = Call("load", None, InvertedIndex_load(inv, file).ret)
    /\ UNCHANGED <<inv_recipes, new_inv, inv_file>>
    /\ UNCHANGED notInv

\* new_inv = InvertedIndex(); new_inv.load(path)
InvLoadNew ==
    /\ new_inv' = InvertedIndex_load(InvertedIndex_init, inv_file).self
    /\ inv_ret' = Call("new_load", None, InvertedIndex_load(InvertedIndex_init, inv_file).ret)
    /\ UNCHANGED <<inv_recipes, inv, inv_file>>
    /\ UNCHANGED notInv

InvInit ==
    /\ inv_recipes = {}
    /\ inv = InvertedIndex_init
    /\ new_inv = InvertedIndex_init
    /\ inv_file = NoFile
    /\ inv_ret = Call("init", None, None)

\* an InvertedIndex that is built and searched
InvBuildNext ==
    \/ \E recipe \in Recipes : InvAddRecipe(recipe, MaxRecipes)
    \/ \E query \in SearchQueries, top_k \in TopKs : InvSearch(query, top_k)
    \/ \E prefix \in Prefixes, limit \in Limits : InvSuggest(prefix, limit)

\* an InvertedIndex that is built by add_recipe, saved, and loaded into a fresh object
InvSaveNext ==
    \/ \E recipe \in Recipes : InvAddRecipe(recipe, MaxSavedRecipes)
    \/ InvSave
    \/ InvLoadNew

\* an InvertedIndex that is built, saved and loaded
InvNext ==
    \/ \E recipe \in Recipes : InvAddRecipe(recipe, MaxSavedRecipes)
    \/ InvSave
    \/ \E file \in {inv_file, OtherFile} : InvLoad(file)
    \/ InvLoadNew

----------------------------------------------------------------------------
(* The calls on a FaissService. *)

\* the recipes given to add_recipes
FaissRecipes == {Chicken, Twin, Pasta, NoId}

\* the lists of at most n recipes, each recipe once
RecipeLists(n) ==
    UNION {{recipes \in [1..len -> FaissRecipes] :
               \A i, j \in 1..len : recipes[i] = recipes[j] => i = j} : len \in 0..n}

\* the ids asked for: those of the recipes, and one that no recipe has
RecipeIds == {"r1", "r3", "r5", "recipe_0", "r9"}

\* the values of k
Ks == {1, 2}

\* faiss.add_recipes(recipes), which leaves at most max_vectors vectors in the index
FaissAddRecipes(recipes, max_vectors) ==
    /\ Len(faiss.index) + Len(recipes) <= max_vectors
    /\ faiss' = FaissService_add_recipes(faiss, recipes)
    /\ faiss_ret' = Call("add_recipes", recipes, None)
    /\ UNCHANGED <<new_faiss, faiss_file, meta_file, adding>>
    /\ UNCHANGED notFaiss

\* faiss.semantic_search(query, k), after a call that is not a query
FaissSemanticSearch(query, k) ==
    /\ faiss_ret.op \notin Queries
    /\ \E results \in FaissService_semantic_search(faiss, query, k) :
           faiss_ret' = Call("semantic_search", [query |-> query, k |-> k], results)
    /\ UNCHANGED <<faiss, new_faiss, faiss_file, meta_file, adding>>
    /\ UNCHANGED notFaiss

\* faiss.find_similar_recipes(recipe_id, k), after a call that is not a query
FaissFindSimilar(recipe_id, k) ==
    /\ faiss_ret.op \notin Queries
    /\ \E outcome \in FaissService_find_similar_recipes(faiss, recipe_id, k) :
           faiss_ret' = Call("find_similar_recipes", [recipe_id |-> recipe_id, k |-> k], outcome)
    /\ UNCHANGED <<faiss, new_faiss, faiss_file, meta_file, adding>>
    /\ UNCHANGED notFaiss

\* faiss.save(path): write_index writes the .faiss file, then pickle.dump the .meta file
FaissSave ==
    /\ faiss_file' = File(faiss.index)
    /\ meta_file' = File(FaissService_metadata(faiss))
    /\ faiss_ret' = Call("save", None, TRUE)
    /\ UNCHANGED <<faiss, new_faiss, adding>>
    /\ UNCHANGED notFaiss

\* faiss.save(path) when the .meta file cannot be written: the .faiss file is written,
\* the exception is caught, and save returns False
FaissSaveMetaFails ==
    /\ faiss_file' = File(faiss.index)
    /\ faiss_ret' = Call("save", None, FALSE)
    /\ UNCHANGED <<faiss, new_faiss, meta_file, adding>>
    /\ UNCHANGED notFaiss

\* new_faiss = FaissService(); new_faiss.load(path)
FaissLoadNew ==
    /\ new_faiss' = FaissService_load(FaissService_init, faiss_file, meta_file).self
    /\ faiss_ret' = Call("new_load", None,
                         FaissService_load(FaissService_init, faiss_file, meta_file).ret)
    /\ UNCHANGED <<faiss, faiss_file, meta_file, adding>>
    /\ UNCHANGED notFaiss

\* no add_recipes call is running
NotAdding == [done |-> 0]

\* another thread calls faiss.add_recipes(recipes) and runs its first assignment
FaissAddBegin(recipes, max_vectors) ==
    /\ adding = NotAdding
    /\ recipes # <<>>
    /\ Len(faiss.index) + Len(recipes) <= max_vectors
    /\ adding' = [done |-> 1, recipes |-> recipes, old |-> faiss]
    /\ faiss' = add_recipes_states(faiss, recipes)[1]
    /\ faiss_ret' = Call("add_recipes", recipes, None)
    /\ UNCHANGED <<new_faiss, faiss_file, meta_file>>
    /\ UNCHANGED notFaiss

\* the thread that runs add_recipes makes its next assignment; the call returns after
\* the last one
FaissAddStep ==
    /\ adding # NotAdding
    /\ faiss' = add_recipes_states(adding.old, adding.recipes)[adding.done + 1]
    /\ adding' = IF adding.done + 1 = Len(add_recipes_states(adding.old, adding.recipes))
                  THEN NotAdding
                  ELSE [adding EXCEPT !.done = @ + 1]
    /\ UNCHANGED <<new_faiss, faiss_file, meta_file, faiss_ret>>
    /\ UNCHANGED notFaiss

FaissInit ==
    /\ faiss = FaissService_init
    /\ new_faiss = FaissService_init
    /\ faiss_file = NoFile
    /\ meta_file = NoFile
    /\ faiss_ret = Call("init", None, None)
    /\ adding = NotAdding

\* a FaissService that is filled and searched
FaissSearchNext ==
    \/ \E recipes \in RecipeLists(MaxRecipes) : FaissAddRecipes(recipes, MaxVectors)
    \/ \E query \in {garlic, rice}, k \in Ks : FaissSemanticSearch(query, k)
    \/ \E recipe_id \in RecipeIds, k \in Ks : FaissFindSimilar(recipe_id, k)

\* a FaissService that one thread fills and reindexes while another searches it
FaissRebuildNext ==
    \/ \E recipes \in RecipeLists(MaxSavedRecipes) : FaissAddBegin(recipes, MaxVectors)
    \/ FaissAddStep
    \/ \E query \in {garlic, rice}, k \in Ks : FaissSemanticSearch(query, k)

\* a FaissService that is filled, saved, and loaded into a fresh object
FaissNext ==
    \/ \E recipes \in RecipeLists(MaxSavedRecipes) : FaissAddRecipes(recipes, MaxSavedVectors)
    \/ FaissSave
    \/ FaissSaveMetaFails
    \/ FaissLoadNew

----------------------------------------------------------------------------
(* The requests to the application. *)

\* the recipes in the data directory
AppRecipes == {Chicken, Twin, BeefRice, Pasta}

\* the lists that load_all_recipes can return: at most MaxRecipes recipes, in the
\* order of os.listdir
Corpora ==
    UNION {{recipes \in [1..len -> AppRecipes] :
               \A i, j \in 1..len : recipes[i] = recipes[j] => i = j} : len \in 0..MaxRecipes}

\* the query strings of the hybrid route
HybridQueries == {<<>>, garlic, rice, <<"G", "a", "r", "l", "i", "c", " ", "R", "i", "c", "e">>}

\* the filters of the hybrid route
NoFilters == [name \in {} |-> ""]

HybridFilters == {NoFilters, [country |-> "Italy"]}

\* before create_app
NoApp == [created |-> FALSE]

\* app = create_app()
AppCreate(recipes) ==
    /\ app = NoApp
    /\ \E inverted_index \in build_inverted(InvertedIndex_init, recipes, 1) :
           app' = create_app(recipes, inverted_index)
    /\ app_ret' = [op |-> "create_app"]
    /\ UNCHANGED notApp

\* GET /api/search/hybrid?q=query and the filters
AppHybridSearch(query, filters) ==
    /\ app_ret.op = "create_app"
    /\ \E semantic_found \in hybrid_semantic(app, query), text_search \in hybrid_text(app, query) :
           app_ret' = [op |-> "hybrid_search",
                       query |-> query,
                       filters |-> filters,
                       semantic_results |-> semantic_found,
                       text_search |-> text_search,
                       response |-> hybrid_search(app, query, filters, semantic_found,
                                                  text_search)]
    /\ UNCHANGED app
    /\ UNCHANGED notApp

\* GET /api/recipes/recipe_id/similar?k=k
AppSimilar(recipe_id, k) ==
    /\ app_ret.op = "create_app"
    /\ \E outcome \in similar_outcomes(app, recipe_id, k) :
           app_ret' = [op |-> "get_similar_recipes",
                       recipe_id |-> recipe_id,
                       k |-> k,
                       response |-> get_similar_recipes(app, recipe_id, outcome)]
    /\ UNCHANGED app
    /\ UNCHANGED notApp

AppInit ==
    /\ app = NoApp
    /\ app_ret = [op |-> "init"]

\* the application objects that a route can find: those of create_app, and those in
\* which app.faiss_service or app.inverted_index is None while the other is built
Applications ==
    LET created == UNION {{create_app(recipes, inverted_index)
                              : inverted_index \in build_inverted(InvertedIndex_init, recipes, 1)}
                             : recipes \in Corpora}
        without(application, name) ==
            [key \in DOMAIN application \ {name} |-> application[key]]
    IN  created
        \cup {without(application, "faiss_service")
                  : application \in {a \in created : "faiss_service" \in DOMAIN a}}
        \cup {without(application, "inverted_index")
                  : application \in {a \in created : "inverted_index" \in DOMAIN a}}

\* the hybrid route finds one of the application objects
RouteInit ==
    /\ FacetInit /\ InvInit /\ FaissInit
    /\ app \in Applications
    /\ app_ret = [op |-> "create_app"]

\* the hybrid route is requested
RouteNext ==
    \E query \in HybridQueries, filters \in HybridFilters : AppHybridSearch(query, filters)

\* the application is created and serves requests
AppNext ==
    \/ \E recipes \in Corpora : AppCreate(recipes)
    \/ \E query \in HybridQueries, filters \in HybridFilters : AppHybridSearch(query, filters)
    \/ \E recipe_id \in RecipeIds, k \in Ks : AppSimilar(recipe_id, k)

----------------------------------------------------------------------------
(* The build of the lexical index and of the facet index. *)

\* for recipe in recipes: inverted_index.add_recipe(recipe['id'], recipe), then
\* facet_index.add_recipe(recipe['id'], recipe); each recipe is added once
BuildNext ==
    \/ \E recipe \in Recipes \ inv_recipes :
           inv_recipes = facet_recipes /\ InvAddRecipe(recipe, MaxRecipes)
    \/ \E recipe \in inv_recipes \ facet_recipes : FacetAddRecipe(recipe)

----------------------------------------------------------------------------
(* The calls on the indexes of an empty corpus. *)

\* facet.get_stats()
FacetStats ==
    /\ facet_ret' = Call("get_stats", None, FacetIndex_get_stats(facet))
    /\ UNCHANGED <<facet_recipes, facet, new_facets, facet_file>>
    /\ UNCHANGED notFacet

\* inv.get_stats()
InvStats ==
    /\ inv_ret' = Call("get_stats", None, InvertedIndex_get_stats(inv))
    /\ UNCHANGED <<inv_recipes, inv, new_inv, inv_file>>
    /\ UNCHANGED notInv

\* faiss.get_stats()
FaissStats ==
    /\ faiss_ret' = Call("get_stats", None, FaissService_get_stats(faiss))
    /\ UNCHANGED <<faiss, new_faiss, faiss_file, meta_file, adding>>
    /\ UNCHANGED notFaiss

\* no call was made yet
Fresh == facet_ret.op = "init" /\ inv_ret.op = "init" /\ faiss_ret.op = "init"

\* one call on one of the three indexes, to which no document was added
EmptyNext ==
    \/ Fresh /\ \E filters \in Filters : FacetFilter(filters)
    \/ Fresh /\ \E prefix \in Prefixes, limit \in Limits : FacetSuggest(prefix, limit)
    \/ Fresh /\ FacetStats
    \/ Fresh /\ \E query \in SearchQueries, top_k \in TopKs : InvSearch(query, top_k)
    \/ Fresh /\ \E prefix \in Prefixes, limit \in Limits : InvSuggest(prefix, limit)
    \/ Fresh /\ InvStats
    \/ Fresh /\ \E query \in {garlic, rice}, k \in Ks : FaissSemanticSearch(query, k)
    \/ Fresh /\ \E recipe_id \in RecipeIds, k \in Ks : FaissFindSimilar(recipe_id, k)
    \/ Fresh /\ FaissStats

----------------------------------------------------------------------------
(* Specifications. *)

Init == FacetInit /\ InvInit /\ FaissInit /\ AppInit

\* a FacetIndex that is built and queried
SpecFacetBuild == Init /\ [][FacetBuildNext]_vars

\* a FacetIndex that is built, saved and loaded
SpecFacet == Init /\ [][FacetNext]_vars

\* an InvertedIndex and a FacetIndex that are built by add_recipe
SpecBuild == Init /\ [][BuildNext]_vars

\* a FacetIndex that is built, saved, loaded in place and asked for suggestions
SpecFacetReload == Init /\ [][FacetReloadNext]_vars

\* a FacetIndex that is built by add_recipe, saved, and loaded into a fresh object
SpecFacetSave == Init /\ [][FacetSaveNext]_vars

\* an InvertedIndex that is built by add_recipe, saved, and loaded into a fresh object
SpecInvSave == Init /\ [][InvSaveNext]_vars

\* an InvertedIndex that is built and searched
SpecInvBuild == Init /\ [][InvBuildNext]_vars

\* an InvertedIndex that is built, saved and loaded
SpecInv == Init /\ [][InvNext]_vars

\* a FaissService that is filled and searched
SpecFaissSearch == Init /\ [][FaissSearchNext]_vars

\* a FaissService that is reindexed while it is searched
SpecFaissRebuild == Init /\ [][FaissRebuildNext]_vars

\* a FaissService that is filled, saved, and loaded into a fresh object
SpecFaiss == Init /\ [][FaissNext]_vars

\* the application is created and serves requests
SpecApp == Init /\ [][AppNext]_vars

\* the hybrid route serves requests on an application object
SpecRoute == RouteInit /\ [][RouteNext]_vars

\* the three indexes of an empty corpus are queried
SpecEmpty == Init /\ [][EmptyNext]_vars

----------------------------------------------------------------------------
(* Claims about FacetIndex.filter_recipes, under SpecFacetBuild. *)

\* the ids of the recipes added so far
AddedIds == {r.id : r \in facet_recipes}

\* C1: after a non-empty sequence of add_recipe calls, filter_recipes({}) returns
\* exactly the set of all ids that were added
C1_FilterNoCriteria ==
    (facet_ret.op = "filter_recipes" /\ DOMAIN facet_ret.arg = {} /\ facet_recipes # {})
        => facet_ret.ret = AddedIds

C1_Witness ==
    /\ facet_ret.op = "filter_recipes"
    /\ DOMAIN facet_ret.arg = {}
    /\ Cardinality(facet_ret.ret) = MaxRecipes

\* the ingredient names a list asks for, as filter_recipes compares them
Asked(filters, name) ==
    IF name \in DOMAIN filters
    THEN {Lower(Strip(filters[name][i])) : i \in DOMAIN filters[name]}
    ELSE {}

\* c2 holds every constraint of c1, and possibly more
Extends(c1, c2) ==
    /\ DOMAIN c1 \subseteq DOMAIN c2
    /\ \A k \in DOMAIN c1 \ {"ingredients", "exclude_ingredients"} : c2[k] = c1[k]
    /\ Asked(c1, "ingredients") \subseteq Asked(c2, "ingredients")
    /\ Asked(c1, "exclude_ingredients") \subseteq Asked(c2, "exclude_ingredients")

\* the names a list asks for
AskedBy(list) == {Lower(Strip(list[i])) : i \in DOMAIN list}

\* c2 with its two lists replaced, where it has them
WithLists(c2, required, excluded) ==
    [k \in DOMAIN c2 |-> CASE k = "ingredients" -> required
                           [] k = "exclude_ingredients" -> excluded
                           [] OTHER -> c2[k]]

\* the filters that c2 extends: {c1 \in Filters : Extends(c1, c2)}, enumerated from c2
Weaker(c2) ==
    {Restrict(WithLists(c2, required, excluded), D) :
        D \in SUBSET DOMAIN c2,
        required \in {l \in IngredientLists : AskedBy(l) \subseteq Asked(c2, "ingredients")}
                        \cup {Field(c2, "ingredients", <<>>)},
        excluded \in {l \in ExcludeLists : AskedBy(l) \subseteq Asked(c2, "exclude_ingredients")}
                        \cup {Field(c2, "exclude_ingredients", <<>>)}}

\* Weaker is the set it is said to be
WeakerIsExtends == \A c2 \in Filters : Weaker(c2) = {c1 \in Filters : Extends(c1, c2)}

\* C2: when C2 holds every constraint of C1 and more, filter_recipes(C2) is a subset
\* of filter_recipes(C1)
C2_MonotonicNarrowing ==
    facet_ret.op = "filter_recipes"
        => \A c1 \in Weaker(facet_ret.arg) :
               facet_ret.ret \subseteq filter_recipes(facet, c1)

C2_Witness ==
    /\ facet_ret.op = "filter_recipes"
    /\ Cardinality(DOMAIN facet_ret.arg) = Cardinality(FilterKeys)
    /\ facet_ret.ret # {}
    /\ \E c1 \in Filters :
          /\ Extends(c1, facet_ret.arg)
          /\ facet_ret.ret # filter_recipes(facet, c1)

----------------------------------------------------------------------------
(* Claims about save and load. *)

\* C3: when a FacetIndex built by add_recipe is saved and the file is loaded into a
\* fresh FacetIndex, load succeeds and filter_recipes gives the same ids on the loaded
\* index as on the saved one, for every set of criteria
C3_FacetRoundTrip ==
    (facet_ret.op = "new_load" /\ facet_file = File(FacetIndex_save(facet)))
        => /\ facet_ret.ret = TRUE
           /\ \A filters \in Filters :
                  filter_recipes(new_facets, filters) = filter_recipes(facet, filters)

\* the posting sets of an index, by term
Postings(index) == {<<index[i].k, index[i].v>> : i \in DOMAIN index}

\* C4: when an InvertedIndex built by add_recipe is saved and the file is loaded into a
\* fresh InvertedIndex, the loaded index has the same posting sets, recipe_terms and
\* total_recipes, and every list search can return on the one is the list it returns on
\* the other, for every query and top_k
C4_InvertedRoundTrip ==
    (inv_ret.op = "new_load" /\ inv_file = File(InvertedIndex_save(inv)))
        => /\ inv_ret.ret = TRUE
           /\ Postings(new_inv.index) = Postings(inv.index)
           /\ new_inv.recipe_terms = inv.recipe_terms
           /\ new_inv.total_recipes = inv.total_recipes
           /\ \A query \in SearchQueries, top_k \in TopKs :
                  \A before \in InvertedIndex_search(inv, query, top_k),
                     after \in InvertedIndex_search(new_inv, query, top_k) : before = after

\* C5: a load() that returns False leaves the object as it was before the call, for
\* the FacetIndex, the InvertedIndex and the FaissService (whose object is a fresh one)
C5_FailedLoadKeepsState ==
    [][/\ (facet_ret'.op = "load" /\ facet_ret'.ret = FALSE) => facet' = facet
       /\ (inv_ret'.op = "load" /\ inv_ret'.ret = FALSE) => inv' = inv
       /\ (faiss_ret'.op = "new_load" /\ faiss_ret'.ret = FALSE)
              => new_faiss' = FaissService_init]_vars

\* the .faiss file and the .meta file do not fit: the number of vectors is not the
\* number of ids, or a vector has not the dimension of the metadata
Mismatch(index_file, metadata_file) ==
    /\ index_file.exists
    /\ metadata_file.exists
    /\ \/ Len(index_file.data) # Len(metadata_file.data.recipe_ids)
       \/ \E i \in DOMAIN index_file.data :
              Len(index_file.data[i]) # metadata_file.data.dimension

\* C6: load() of files that do not fit returns False, and the object it was called on
\* answers no query
C6_LoadValidates ==
    (faiss_ret.op = "new_load" /\ Mismatch(faiss_file, meta_file))
        => /\ faiss_ret.ret = FALSE
           /\ \A query \in {garlic, rice}, k \in Ks :
                  FaissService_semantic_search(new_faiss, query, k) = {<<>>}

----------------------------------------------------------------------------
(* Claims about FaissService.find_similar_recipes. *)

\* the last call is find_similar_recipes for an id of the index, and it returned a list
SimilarReturned ==
    /\ faiss_ret.op = "find_similar_recipes"
    /\ HasKey(faiss.id_to_index, faiss_ret.arg.recipe_id)
    /\ faiss_ret.ret.exception = None

\* C7: with two documents or more, the list that find_similar_recipes(id, k) returns
\* for an id of the index has no document whose id is id
C7_SimilarExcludesItself ==
    (SimilarReturned /\ Len(faiss.recipes) >= 2)
        => \A i \in DOMAIN faiss_ret.ret.value :
               Field(faiss_ret.ret.value[i], "id", None) # faiss_ret.arg.recipe_id

\* a document with the vector of the one asked for is in the index, and the call
\* returned documents
C7_Witness ==
    /\ SimilarReturned
    /\ Len(faiss.recipes) >= 2
    /\ faiss_ret.ret.value # <<>>
    /\ \E i, j \in DOMAIN faiss.recipes :
           /\ i # j
           /\ faiss.recipe_ids[i] = faiss_ret.arg.recipe_id
           /\ faiss.index[i] = faiss.index[j]

\* the index holds the vectors of the current recipes and no other
OneBatch == Len(faiss.index) = Len(faiss.recipes)

\* C8: on an index of N documents, find_similar_recipes(id, k) returns min(k, N - 1)
\* documents, none farther from the document asked for than a document left out
C8_SimilarCount ==
    (SimilarReturned /\ OneBatch)
        => LET returned == faiss_ret.ret.value
               asked == Get(faiss.id_to_index, faiss_ret.arg.recipe_id, None) + 1
               left_out == {j \in DOMAIN faiss.recipes :
                               /\ j # asked
                               /\ \A i \in DOMAIN returned :
                                      Field(returned[i], "id", None)
                                          # Field(faiss.recipes[j], "id", None)}
           IN  /\ Len(returned) = min(faiss_ret.arg.k, Len(faiss.recipes) - 1)
               /\ \A i \in DOMAIN returned, j \in left_out :
                      returned[i].similarity_distance
                          <= L2sqr(faiss.index[j], faiss.index[asked])

\* C9: find_similar_recipes for an id that is not in the index ends in a NotFound
\* failure, not in an empty list
C9_UnknownIdNotFound ==
    (faiss_ret.op = "find_similar_recipes"
     /\ ~HasKey(faiss.id_to_index, faiss_ret.arg.recipe_id))
        => faiss_ret.ret.exception = "NotFound"

----------------------------------------------------------------------------
(* Claims about the hybrid route. *)

\* the last request is a hybrid search that was answered with results
HybridAnswered ==
    /\ app_ret.op = "hybrid_search"
    /\ app_ret.response.status = 200

\* the places of recipe_id in the results of the semantic search and of the text search
InSemantic(recipe_id) ==
    {i \in DOMAIN app_ret.semantic_results : app_ret.semantic_results[i].id = recipe_id}

InText(recipe_id) ==
    {i \in DOMAIN app_ret.text_search : app_ret.text_search[i][1] = recipe_id}

\* 0.7 * semantic_score + 0.3 * lexical_score of recipe_id, a score being 0 when the
\* search did not return recipe_id, in units of 1 / (10 * SimilarityScale * ScoreScale)
CombinedScore(recipe_id) ==
    (IF InSemantic(recipe_id) = {} THEN 0
     ELSE 7 * ScoreScale
            * app_ret.semantic_results[CHOOSE i \in InSemantic(recipe_id) : TRUE].semantic_score)
    + (IF InText(recipe_id) = {} THEN 0
       ELSE 3 * SimilarityScale
              * app_ret.text_search[CHOOSE i \in InText(recipe_id) : TRUE][2])

\* C10: in the merged list of a hybrid search every id appears once, the score of a
\* document is 0.7 * semantic_score + 0.3 * lexical_score over the searches that
\* returned it, and the list is in descending order of that score
C10_HybridMerge ==
    HybridAnswered
        => LET results == app_ret.response.body.results
           IN  /\ \A i, j \in DOMAIN results : results[i].id = results[j].id => i = j
               /\ \A i \in DOMAIN results :
                      results[i].hybrid_score = CombinedScore(results[i].id)
               /\ \A i, j \in DOMAIN results :
                      i < j => results[i].hybrid_score >= results[j].hybrid_score

\* a merged list with a document of both searches, one of the semantic search alone and
\* one of the text search alone
C10_Witness ==
    /\ HybridAnswered
    /\ LET ids == {app_ret.response.body.results[i].id
                      : i \in DOMAIN app_ret.response.body.results}
       IN  /\ \E id \in ids : InSemantic(id) # {} /\ InText(id) # {}
           /\ \E id \in ids : InSemantic(id) # {} /\ InText(id) = {}
           /\ \E id \in ids : InSemantic(id) = {} /\ InText(id) # {}

\* the merged list of the last hybrid search in the order of the hybrid score, before
\* the facet criteria are applied
MergedRanked ==
    LET semantic_results ==
            [i \in DOMAIN app_ret.semantic_results |->
                With(app_ret.semantic_results[i], "hybrid_score",
                     semantic_hybrid_score(Field(app_ret.semantic_results[i],
                                                 "semantic_score", 0)))]
        all_results == merge_text(add_semantic(<<>>, semantic_results),
                                  text_results_of(app.recipes, app_ret.text_search))
    IN  sort_by_hybrid_score([i \in DOMAIN all_results |-> all_results[i].v])

\* the last request is a hybrid search with a query, facet criteria, and a facet index
HybridWithCriteria ==
    /\ app_ret.op = "hybrid_search"
    /\ app_ret.query # <<>>
    /\ DOMAIN app_ret.filters # {}
    /\ "facet_index" \in DOMAIN app

\* C11: a hybrid search with facet criteria is answered without an error, and its
\* results are the merged ranked list restricted to the ids of
\* filter_recipes(criteria), in the same order, cut to the first 20
C11_HybridFacetFilter ==
    HybridWithCriteria
        => /\ app_ret.response.status = 200
           /\ LET allowed == filter_recipes(app.facet_index, app_ret.filters)
                  survives(recipe) == Field(recipe, "id", None) \in allowed
              IN  app_ret.response.body.results
                      = slice_to(SelectSeq(MergedRanked, survives), ResponseLimit)

\* the last request is a hybrid search with a query and no facet criteria, on an
\* application that has the index of one search and not that of the other
OneIndexOnly(present, absent) ==
    /\ app_ret.op = "hybrid_search"
    /\ app_ret.query # <<>>
    /\ DOMAIN app_ret.filters = {}
    /\ present \in DOMAIN app
    /\ absent \notin DOMAIN app

----------------------------------------------------------------------------
(* Claims about InvertedIndex.search, under SpecInvBuild. *)

\* the posting set of a term in the index, empty for a term that is not a key
PostingSet(term) ==
    UNION {inv.index[e].v : e \in {d \in DOMAIN inv.index : inv.index[d].k = term}}

\* the terms that the normalization yields from the title of a recipe
TitleTerms(recipe) == ListToSet(preprocess_text(Field(recipe, "title", <<>>)))

\* the ids of the pairs that the last search returned
FoundIds == {inv_ret.ret[i][1] : i \in DOMAIN inv_ret.ret}

RECURSIVE SumOfWeights(_, _)
SumOfWeights(terms, recipe_id) ==
    IF terms = <<>> THEN 0
    ELSE (IF recipe_id \in PostingSet(Head(terms))
          THEN ScoreScale \div (Cardinality(PostingSet(Head(terms))) + 1) ELSE 0)
         + SumOfWeights(Tail(terms), recipe_id)

\* C14: search(query, top_k) returns at most top_k pairs in descending order of score;
\* the score of a document is the sum of 1 / (posting_set_size(term) + 1) over the
\* normalized query terms whose posting set holds it, and a document that matches no
\* query term is not in the result
C14_SearchScores ==
    inv_ret.op = "search"
        => LET query_terms == preprocess_text(inv_ret.arg.query)
               results == inv_ret.ret
           IN  /\ Len(results) <= inv_ret.arg.top_k
               /\ \A i \in DOMAIN results :
                      /\ results[i][2] = SumOfWeights(query_terms, results[i][1])
                      /\ \E t \in DOMAIN query_terms :
                             results[i][1] \in PostingSet(query_terms[t])
                      /\ results[i][2] > 0
               /\ \A i, j \in DOMAIN results : i < j => results[i][2] >= results[j][2]

\* a search with two terms that returned a document of both terms before a document of
\* one term, on an index with a document that matches neither
C14_Witness ==
    /\ inv_ret.op = "search"
    /\ Len(preprocess_text(inv_ret.arg.query)) = 2
    /\ Len(inv_ret.ret) = 2
    /\ inv_ret.ret[1][2] > inv_ret.ret[2][2]
    /\ \A t \in {1, 2} : inv_ret.ret[1][1] \in PostingSet(preprocess_text(inv_ret.arg.query)[t])
    /\ \E recipe \in inv_recipes :
           \A t \in {1, 2} : recipe.id \notin PostingSet(preprocess_text(inv_ret.arg.query)[t])

\* C15: search is deterministic on ties: for the documents indexed, the query and
\* top_k, the sequence that search returns is the only one that it can return
C15_SearchDeterministic ==
    inv_ret.op = "search"
        => InvertedIndex_search(inv, inv_ret.arg.query, inv_ret.arg.top_k) = {inv_ret.ret}

\* the documents that hold a term of the query
Matching(query_terms) == UNION {PostingSet(query_terms[t]) : t \in DOMAIN query_terms}

\* C16: search returns the empty list when the query is empty or normalizes to no
\* term; a query term that is not a key of the index adds no score and does not keep
\* the other terms from matching: the result holds the documents of the other terms,
\* up to top_k of them, with the scores of those terms
C16_EmptyAndUnknownTerms ==
    inv_ret.op = "search"
        => LET query_terms == preprocess_text(inv_ret.arg.query)
               is_key(term) == \E e \in DOMAIN inv.index : inv.index[e].k = term
               known == SelectSeq(query_terms, is_key)
           IN  /\ query_terms = <<>> => inv_ret.ret = <<>>
               /\ Len(inv_ret.ret) = min(inv_ret.arg.top_k, Cardinality(Matching(known)))
               /\ \A i \in DOMAIN inv_ret.ret :
                      /\ inv_ret.ret[i][1] \in Matching(known)
                      /\ inv_ret.ret[i][2] = SumOfWeights(known, inv_ret.ret[i][1])

\* a search with a term that is a key of the index and one that is not, which returned
\* a document
C16_Witness ==
    /\ inv_ret.op = "search"
    /\ \E t \in DOMAIN preprocess_text(inv_ret.arg.query) :
           PostingSet(preprocess_text(inv_ret.arg.query)[t]) = {}
    /\ inv_ret.ret # <<>>

\* the keys of the index that start with the lower case of the prefix of the last
\* get_suggestions
MatchingTerms ==
    {inv.index[e].k : e \in {d \in DOMAIN inv.index :
                                StartsWith(inv.index[d].k, Lower(inv_ret.arg.prefix))}}

\* C17: get_suggestions(prefix, limit) returns only terms of the index that start with
\* the lowercased prefix, at most limit of them, in non-increasing order of the size of
\* their posting sets, and no matching term that it omits has a larger posting set than
\* one that it returns
C17_Suggestions ==
    inv_ret.op = "get_suggestions"
        => LET terms == inv_ret.ret
               size(term) == Cardinality(PostingSet(term))
           IN  /\ \A i \in DOMAIN terms : terms[i] \in MatchingTerms
               /\ Len(terms) <= inv_ret.arg.limit
               /\ \A i, j \in DOMAIN terms : i < j => size(terms[i]) >= size(terms[j])
               /\ \A omitted \in MatchingTerms \ ListToSet(terms) :
                      \A i \in DOMAIN terms : size(omitted) <= size(terms[i])

\* suggestions that are cut at the limit, with a term of two documents before a term
\* of one document, while a matching term is omitted
C17_Witness ==
    /\ inv_ret.op = "get_suggestions"
    /\ Len(inv_ret.ret) = 2
    /\ inv_ret.arg.limit = 2
    /\ Cardinality(PostingSet(inv_ret.ret[1])) > Cardinality(PostingSet(inv_ret.ret[2]))
    /\ MatchingTerms \ ListToSet(inv_ret.ret) # {}

----------------------------------------------------------------------------
(* Claims about the facets, under SpecFacetBuild. *)

\* the posting set of an ingredient, empty for one that is not a key
IngredientPosting(ingredient) ==
    UNION {facet.ingredient_index[e].v
              : e \in {d \in DOMAIN facet.ingredient_index
                          : facet.ingredient_index[d].k = ingredient}}

\* the ingredient keys that start with the lower case of the prefix of the last
\* suggest_ingredients
MatchingIngredients ==
    {facet.ingredient_index[e].k
        : e \in {d \in DOMAIN facet.ingredient_index
                    : StartsWith(facet.ingredient_index[d].k, Lower(facet_ret.arg.prefix))}}

\* C18: suggest_ingredients(prefix, limit) returns only ingredient keys that start with
\* the lowercased prefix, each with the size of its posting set as frequency, at most
\* limit entries, in non-increasing order of frequency; and for the prefix 'gar' it
\* returns 'garlic' when a document has this ingredient and the limit does not cut
\* the matching keys
C18_SuggestIngredients ==
    facet_ret.op = "suggest_ingredients"
        => LET suggestions == facet_ret.ret
           IN  /\ \A i \in DOMAIN suggestions :
                      /\ suggestions[i].ingredient \in MatchingIngredients
                      /\ suggestions[i].frequency
                             = Cardinality(IngredientPosting(suggestions[i].ingredient))
               /\ Len(suggestions) <= facet_ret.arg.limit
               /\ \A i, j \in DOMAIN suggestions :
                      i < j => suggestions[i].frequency >= suggestions[j].frequency
               /\ (/\ facet_ret.arg.prefix = <<"g", "a", "r">>
                   /\ IngredientPosting(garlic) # {}
                   /\ Cardinality(MatchingIngredients) <= facet_ret.arg.limit)
                      => \E i \in DOMAIN suggestions : suggestions[i].ingredient = garlic

\* suggest_ingredients('gar', 10) that returned garlic with the frequency 2
C18_Witness ==
    /\ facet_ret.op = "suggest_ingredients"
    /\ facet_ret.arg.prefix = <<"g", "a", "r">>
    /\ facet_ret.ret = <<[ingredient |-> garlic, frequency |-> 2]>>

\* the five dimensions of exact match
Dimensions == {"country", "category", "difficulty", "meal_type", "cooking_method"}

\* the ids under a value in the index of a dimension of the FacetIndex
Bucket(dimension_name, value) ==
    LET index == facet[dimension_name \o "_index"]
    IN  UNION {index[e].v : e \in {d \in DOMAIN index : index[d].k = value}}

\* C19: after add_recipe(id, doc), in each of the dimensions country, category,
\* difficulty, meal_type and cooking_method the id is in the posting set of the value
\* of the document, or in that of "Unknown" when the document has not the field: every
\* added id is in a bucket of every dimension
C19_EveryDimensionHoldsId ==
    \A recipe \in facet_recipes, dimension_name \in Dimensions :
        /\ dimension_name \in DOMAIN recipe
               => recipe.id \in Bucket(dimension_name, recipe[dimension_name])
        /\ dimension_name \notin DOMAIN recipe
               => recipe.id \in Bucket(dimension_name, "Unknown")

\* add_recipe of a document without a country, after one that has all the fields
C19_Witness ==
    /\ facet_ret.op = "add_recipe"
    /\ facet_ret.arg = "r4"
    /\ Chicken \in facet_recipes
    /\ Bucket("country", "Unknown") = {"r4"}
    /\ Bucket("country", "South Korea") = {"r1"}

\* the ingredient names of a recipe, trimmed and in lower case
IngredientNames(recipe) ==
    {Lower(Strip(Field(Field(recipe, "ingredients", <<>>)[i], "item", <<>>)))
        : i \in DOMAIN Field(recipe, "ingredients", <<>>)}

\* the last call is filter_recipes and its result is: the result of the criteria other
\* than the two ingredient lists, intersected with the recipes that hold every required
\* ingredient, minus the recipes that hold an excluded one; names are the ingredient
\* names of a recipe that count
FilteredByIngredients(names(_)) ==
    LET filters == facet_ret.arg
        others == Restrict(filters, DOMAIN filters \ {"ingredients", "exclude_ingredients"})
        holds_all == {recipe.id : recipe \in {r \in facet_recipes :
                                     Asked(filters, "ingredients") \subseteq names(r)}}
        holds_any == {recipe.id : recipe \in {r \in facet_recipes :
                                     Asked(filters, "exclude_ingredients") \cap names(r) # {}}}
    IN  facet_ret.ret = (filter_recipes(facet, others) \cap holds_all) \ holds_any

\* C20: filter_recipes with a list of required ingredients returns only documents that
\* hold every listed ingredient, and with a list of excluded ingredients no document
\* that holds a listed ingredient; the names are compared trimmed and in lower case,
\* and the lists are combined with the other criteria by intersection
C20_IngredientFilters ==
    facet_ret.op = "filter_recipes" => FilteredByIngredients(IngredientNames)

\* the ingredient names of a recipe that add_recipe indexes: those of more than two
\* characters
IndexedNames(recipe) == {name \in IngredientNames(recipe) : Len(name) > 2}

\* C20, for the ingredient names of more than two characters: a shorter name is the
\* name of no document
C20_IndexedIngredientFilters ==
    facet_ret.op = "filter_recipes" => FilteredByIngredients(IndexedNames)

\* a filter with required ingredients, excluded ingredients and a difficulty that
\* returned one of three recipes
C20_Witness ==
    /\ facet_ret.op = "filter_recipes"
    /\ {"ingredients", "exclude_ingredients", "difficulty"} \subseteq DOMAIN facet_ret.arg
    /\ facet_recipes = {Chicken, BeefRice, Pasta}
    /\ facet_ret.ret = {"r3"}

\* the ids of a duration bucket of the FacetIndex
DurationBucket(name) ==
    UNION {facet.duration_index[e].v
              : e \in {d \in DOMAIN facet.duration_index : facet.duration_index[d].k = name}}

\* the last call is filter_recipes with a threshold max_time
FilteredByTime ==
    /\ facet_ret.op = "filter_recipes"
    /\ "max_time" \in DOMAIN facet_ret.arg
    /\ facet_ret.arg.max_time > 0

----------------------------------------------------------------------------
(* Claims about the FaissService, under SpecFaissSearch. *)

\* C22: semantic_search(query, k) on an index of N documents returns min(k, N)
\* documents in the order of non-decreasing distance to the vector of the query, each
\* with its distance, the score 1 / (1 + distance) and the rank of its position in
\* the returned list; on an empty index it returns the empty list
C22_SemanticSearch ==
    faiss_ret.op = "semantic_search"
        => LET results == faiss_ret.ret
               query_embedding == encode(faiss_ret.arg.query)
               annotated(recipe, rank) ==
                   LET distance == L2sqr(encode(prepare_recipe_text(recipe)), query_embedding)
                   IN  With(With(With(recipe,
                            "semantic_score", SimilarityScale \div (1 + distance)),
                            "semantic_distance", distance),
                            "semantic_rank", rank)
           IN  /\ Len(results) = min(faiss_ret.arg.k, Len(faiss.recipes))
               /\ \A i \in DOMAIN results :
                      \E p \in DOMAIN faiss.recipes :
                          results[i] = annotated(faiss.recipes[p], i)
               /\ \A i, j \in DOMAIN results :
                      i < j => results[i].semantic_distance <= results[j].semantic_distance

----------------------------------------------------------------------------
(* Claims about the empty corpus, under SpecEmpty. *)

\* no document was ever added to any of the three indexes
EmptyCorpus ==
    /\ facet = FacetIndex_init
    /\ inv = InvertedIndex_init
    /\ faiss = FaissService_init

\* C23: on an empty corpus every lexical search, lexical suggestion, facet filter,
\* ingredient suggestion, semantic search and find_similar_recipes returns an empty
\* result and raises nothing, and get_stats of each index reports counts of zero
C23_EmptyCorpus ==
    EmptyCorpus
        => /\ inv_ret.op \in {"search", "get_suggestions"} => inv_ret.ret = <<>>
           /\ facet_ret.op = "filter_recipes" => facet_ret.ret = {}
           /\ facet_ret.op = "suggest_ingredients" => facet_ret.ret = <<>>
           /\ faiss_ret.op = "semantic_search" => faiss_ret.ret = <<>>
           /\ faiss_ret.op = "find_similar_recipes" => faiss_ret.ret = Returns(<<>>)
           /\ inv_ret.op = "get_stats"
                  => /\ inv_ret.ret.total_terms = 0
                     /\ inv_ret.ret.total_recipes = 0
                     /\ inv_ret.ret.avg_terms_per_recipe[1] = 0
                     /\ inv_ret.ret.top_10_terms = <<>>
           /\ facet_ret.op = "get_stats"
                  => /\ \A name \in {"total_countries", "total_categories",
                                      "total_difficulties", "total_meal_types",
                                      "total_cooking_methods", "total_ingredients"} :
                            facet_ret.ret[name] = 0
                     /\ facet_ret.ret.top_10_ingredients = <<>>
           /\ faiss_ret.op = "get_stats"
                  => /\ faiss_ret.ret.total_recipes = 0
                     /\ faiss_ret.ret.faiss_index_size = 0

\* get_stats of the FaissService of an empty corpus
C23_Witness ==
    /\ EmptyCorpus
    /\ faiss_ret.op = "get_stats"
    /\ faiss_ret.ret.total_recipes = 0

----------------------------------------------------------------------------
(* Claims about the queries, under SpecFacetReload. *)

\* C24: a query (search and get_suggestions of the InvertedIndex, filter_recipes and
\* suggest_ingredients of the FacetIndex, semantic_search and find_similar_recipes of
\* the FaissService, the hybrid merge) leaves the state of the index it is made on as
\* it was: every posting map with its key set, the stored records, the vectors
C24_QueriesKeepState ==
    [][/\ inv_ret'.op \in {"search", "get_suggestions"} => inv' = inv
       /\ facet_ret'.op \in {"filter_recipes", "suggest_ingredients"} => facet' = facet
       /\ faiss_ret'.op \in {"semantic_search", "find_similar_recipes"} => faiss' = faiss
       /\ app_ret'.op = "hybrid_search" => app' = app]_vars

----------------------------------------------------------------------------
(* Claims about the reindexing, under SpecFaissRebuild. *)

\* the recipes, the ids, the id mappings and the vectors of the index that a query on
\* the object reads
Observed(self) ==
    <<self.recipes, self.recipe_ids, self.id_to_index, self.index_to_id, self.index>>

\* C25: a semantic_search that is made while add_recipes runs observes the recipes,
\* the id mappings and the vector index as they were before the call or as they are
\* after it, never a state in between, in which they disagree
C25_AtomicReindex ==
    [][(faiss_ret'.op = "semantic_search" /\ faiss_ret.op # "semantic_search"
            /\ adding # NotAdding)
           => Observed(faiss) \in
                  {Observed(adding.old),
                   Observed(FaissService_add_recipes(adding.old, adding.recipes))}
      ]_<<faiss_ret.op, adding.done>>

----------------------------------------------------------------------------
(* Claims about the posting sets, under SpecBuild. *)

\* the terms that the normalization yields from the title, the description, the
\* ingredients, the tags and the instructions of a recipe
NormalizedTerms(recipe) ==
    LET ingredients == Field(recipe, "ingredients", <<>>)
        of_ingredients ==
            UNION {ListToSet(preprocess_text(Field(ingredients[i], "item", <<>>)))
                       \cup ListToSet(preprocess_text(Field(ingredients[i], "quantity", <<>>)))
                      : i \in DOMAIN ingredients}
        of_list(name) ==
            UNION {ListToSet(preprocess_text(Field(recipe, name, <<>>)[i]))
                      : i \in DOMAIN Field(recipe, name, <<>>)}
    IN  ListToSet(preprocess_text(Field(recipe, "title", <<>>)))
        \cup ListToSet(preprocess_text(Field(recipe, "description", <<>>)))
        \cup of_ingredients \cup of_list("tags") \cup of_list("instructions")

\* the value of a recipe in one of the five dimensions of exact match
ValueOf(recipe, dimension_name) == Field(recipe, dimension_name, "Unknown")

\* C26: after add_recipe calls with distinct ids, an id is in the posting set of a key
\* iff its document satisfied the condition of the key when it was added.  In the
\* InvertedIndex the key is a term that the normalization yields from the title, the
\* description, the ingredients, the tags or the instructions, and recipe_terms[id]
\* holds these terms, each once.  In the FacetIndex the key is the value of the
\* document in the dimension: its country, category, difficulty, meal_type and
\* cooking_method, each of its ingredient names, its duration bucket
C26_PostingSets ==
    /\ inv.total_recipes = Cardinality(inv_recipes)
           => \A recipe \in inv_recipes :
                  /\ \A term \in Keys(inv.index) \cup NormalizedTerms(recipe) :
                         recipe.id \in PostingSet(term) <=> term \in NormalizedTerms(recipe)
                  /\ LET terms == Get(inv.recipe_terms, recipe.id, <<>>)
                     IN  /\ ListToSet(terms) = NormalizedTerms(recipe)
                         /\ Len(terms) = Cardinality(NormalizedTerms(recipe))
    /\ \A recipe \in facet_recipes :
           /\ \A dimension_name \in Dimensions :
                  \A value \in Keys(facet[dimension_name \o "_index"])
                                \cup {ValueOf(recipe, dimension_name)} :
                      recipe.id \in Bucket(dimension_name, value)
                          <=> value = ValueOf(recipe, dimension_name)
           /\ \A name \in Keys(facet.ingredient_index) \cup IndexedNames(recipe) :
                  recipe.id \in IngredientPosting(name) <=> name \in IndexedNames(recipe)
           /\ \A name \in Keys(facet.duration_index) :
                  recipe.id \in DurationBucket(name)
                      <=> name = duration_bucket(Field(Field(recipe, "duration", <<>>),
                                                       "total", 0))

\* three documents in each index, under keys that two of them share
C26_Witness ==
    /\ inv_recipes = {Chicken, BeefRice, Pasta}
    /\ inv.total_recipes = Cardinality(inv_recipes)
    /\ PostingSet(rice) = {"r2", "r3"}
    /\ PostingSet(garlic) = {"r1", "r3"}
    /\ facet_recipes = {Chicken, BeefRice, Pasta}
    /\ Bucket("category", "Main") = {"r1", "r3"}
    /\ Bucket("category", "Unknown") = {"r2"}

----------------------------------------------------------------------------
(* Claims about the state of the FaissService, under SpecFaissSearch. *)

\* C27: after any sequence of add_recipes calls, a second one that reindexes included,
\* the index holds as many vectors as there are recipes and recipe ids, id_to_index and
\* index_to_id are inverse maps over the current ids and no others, and the vector at
\* each position is the embedding of the recipe at that position
C27_SemanticIndexConsistent ==
    /\ Len(faiss.index) = Len(faiss.recipes)
    /\ Len(faiss.recipe_ids) = Len(faiss.recipes)
    /\ Keys(faiss.id_to_index) = ListToSet(faiss.recipe_ids)
    /\ Keys(faiss.index_to_id) = {p - 1 : p \in DOMAIN faiss.recipe_ids}
    /\ \A p \in DOMAIN faiss.recipe_ids :
           /\ Get(faiss.id_to_index, faiss.recipe_ids[p], -1) = p - 1
           /\ Get(faiss.index_to_id, p - 1, <<>>) = faiss.recipe_ids[p]
    /\ \A p \in DOMAIN faiss.recipes :
           /\ p \in DOMAIN faiss.index
           /\ faiss.index[p] = encode(prepare_recipe_text(faiss.recipes[p]))

----------------------------------------------------------------------------
(* Claims about the duration buckets, under SpecBuild. *)

\* duration.total of a recipe, 0 for a recipe without it
TotalOf(recipe) == Field(Field(recipe, "duration", <<>>), "total", 0)

\* C28: after add_recipe calls with distinct ids the three duration buckets partition
\* the added ids: an id is in quick when its total is below 30 or its duration is
\* missing, in medium when the total is from 30 to 60, in long when it is above 60
C28_DurationPartition ==
    LET ids == {recipe.id : recipe \in facet_recipes}
        quick == DurationBucket("quick")
        medium == DurationBucket("medium")
        long == DurationBucket("long")
    IN  /\ Keys(facet.duration_index) = {"quick", "medium", "long"}
        /\ quick \cup medium \cup long = ids
        /\ quick \cap medium = {} /\ quick \cap long = {} /\ medium \cap long = {}
        /\ \A recipe \in facet_recipes :
               /\ recipe.id \in quick <=> TotalOf(recipe) < 30
               /\ recipe.id \in medium <=> TotalOf(recipe) >= 30 /\ TotalOf(recipe) <= 60
               /\ recipe.id \in long <=> TotalOf(recipe) > 60
        /\ \A total \in 0..90 :
               duration_bucket(total) = CASE total < 30 -> "quick"
                                          [] total > 60 -> "long"
                                          [] OTHER -> "medium"

\* a recipe without a duration, one of 60 minutes and one of 90 minutes
C28_Witness ==
    /\ facet_recipes = {Chicken, Pasta, Snack}
    /\ "duration" \notin DOMAIN Snack
    /\ DurationBucket("quick") = {"r4"}
    /\ DurationBucket("medium") = {"r3"}
    /\ DurationBucket("long") = {"r1"}

----------------------------------------------------------------------------
(* Claims about the threshold max_time, under SpecFacetBuild. *)

\* the recipes that the last filter_recipes returned
Returned == {recipe \in facet_recipes : recipe.id \in facet_ret.ret}

\* C29: for every positive T, filter_recipes with max_time = T never returns a document
\* whose duration.total is above T
C29_NeverAboveThreshold ==
    FilteredByTime
        => \A recipe \in Returned : TotalOf(recipe) <= facet_ret.arg.max_time

\* C29, for the bounds of the buckets: for every positive T, filter_recipes with
\* max_time = T never returns a document whose duration.total is above 60, nor, when
\* T < 30, one whose duration.total is 30 or more
C29_NeverAboveBucket ==
    FilteredByTime
        => \A recipe \in Returned :
               /\ TotalOf(recipe) <= 60
               /\ facet_ret.arg.max_time < 30 => TotalOf(recipe) < 30

\* filter_recipes({max_time: 20}) on documents of 90, 25 and 60 minutes, which returned
\* the one of 25 minutes
C29_Witness ==
    /\ FilteredByTime
    /\ facet_ret.arg = [max_time |-> 20]
    /\ facet_recipes = {Chicken, BeefRice, Pasta}
    /\ facet_ret.ret = {"r2"}
    /\ TotalOf(BeefRice) > facet_ret.arg.max_time

----------------------------------------------------------------------------
(* Claims about the keys of the term index, under SpecInvBuild. *)

\* the tokens of the texts of a recipe that add_recipe normalizes, in lower case and
\* without the characters that are not alphanumeric
CleanTokens(recipe) ==
    LET texts == <<Field(recipe, "title", <<>>),
                   Field(recipe, "description", <<>>),
                   ingredients_text(Field(recipe, "ingredients", <<>>)),
                   join(Field(recipe, "tags", <<>>)),
                   join(Field(recipe, "instructions", <<>>))>>
        cleaned(text) == {SelectSeq(word_tokenize(Lower(text))[i], isalnum)
                             : i \in DOMAIN word_tokenize(Lower(text))}
    IN  UNION {cleaned(texts[i]) : i \in DOMAIN texts}

\* a non-empty alphanumeric string of length >= 2
IsTerm(key) == Len(key) >= 2 /\ \A i \in DOMAIN key : isalnum(key[i])

\* the last call is a search whose query is normalized to the one term key, with a
\* top_k that does not cut the documents of the term
SearchedFor(key) ==
    /\ inv_ret.op = "search"
    /\ preprocess_text(inv_ret.arg.query) = <<key>>
    /\ Cardinality(PostingSet(key)) <= inv_ret.arg.top_k

====
